---- MODULE Spec2Model ----
(***************************************************************************)
(* Model of checker.py (SD card -> Synology NAS backup checker).           *)
(*                                                                         *)
(*   SpecCompare : compare_files, one loop iteration per step, over every  *)
(*                 source / NAS / local index of the bounded universe.     *)
(*   SpecScan    : scan_nas_folder over a remote tree served by a          *)
(*                 paginated listing that may fail or be interrupted.      *)
(*   SpecScanFair: SpecScan with the scan always taking its next step.     *)
(*   SpecLocal   : scan_sd_card and scan_local_folder, one enumerated path *)
(*                 per step.                                               *)
(*   SpecCopy    : copy_files_to_folder, one source file per step.         *)
(*   SpecGroup   : the grouping of the missing records by date in main.    *)
(*   SpecPrompt  : prompt_copy_missing, one prompt round per step.         *)
(*   SpecMain    : main, with the steps of scan_nas_folder and of          *)
(*                 compare_files as its sub-steps.                         *)
(***************************************************************************)
EXTENDS Integers, Sequences, FiniteSets, TLC

VARIABLES
    \* ---- compare_files ----
    sd_files,          \* dict key -> [name, size, mtime, path]
    nas_files,         \* dict key -> [size, mtime, folder]
    local_files,       \* dict key -> [size, mtime, folder]
    time_tolerance,    \* parameter time_tolerance
    todo,              \* keys of sd_files the for-loop has not reached yet
    backed_up_nas,     \* list of [name, size, mtime, path, folder]
    backed_up_local,   \* list of [name, size, mtime, path, folder]
    missing,           \* list of [name, size, mtime, path]
    cpc                \* "idle" | "loop" | "returned"

VARIABLES
    \* ---- scan_nas_folder ----
    tree,              \* the remote tree: folder path -> entries in listing order
    target_files,      \* parameter target_files: key -> mtime (empty: None / {})
    files,             \* dict key -> [size, mtime, folder]
    folders_to_scan,   \* the work-stack (list of folder paths)
    scanned_count,
    remaining,         \* set of target keys not matched yet
    folder,            \* folder being listed
    offset,
    subdirs,           \* sub-directories collected for `folder`
    items,             \* page being processed
    idx,               \* position of the for-loop in `items`
    pc,                \* "idle" | "loop" | "fetch" | "items" | "check" | "done"
    result,            \* "none" | "returned" | "raised"
    was_interrupted,   \* second component of the returned tuple
    \* ---- observation of the run (not program state) ----
    fetches,           \* log of the get_file_list calls issued
    visited,           \* folders in the order they were popped
    processed,         \* entries of `folder` the for-loop has handled
    early_exit,        \* the return of line 236 was taken
    intr_at            \* pc at which KeyboardInterrupt was delivered, or "none"

cmpVars == <<sd_files, nas_files, local_files, time_tolerance, todo,
             backed_up_nas, backed_up_local, missing, cpc>>

scanVars == <<tree, target_files, files, folders_to_scan, scanned_count, remaining,
              folder, offset, subdirs, items, idx, pc, result, was_interrupted,
              fetches, visited, processed, early_exit, intr_at>>

VARIABLES
    \* ---- scan_sd_card / scan_local_folder ----
    walk,              \* the paths rglob('*') yields, in enumeration order
    variant,           \* "sd" (scan_sd_card) | "local" (scan_local_folder)
    root_exists,       \* Path(root).exists()
    lfiles,            \* the dict `files` being built
    lpos,              \* position of the for-loop in `walk`
    lpc                \* "idle" | "start" | "walk" | "returned" | "exit1"

locVars == <<walk, variant, root_exists, lfiles, lpos, lpc>>

VARIABLES
    \* ---- copy_files_to_folder ----
    cfiles,            \* parameter files: list of source paths <<dir, name>>
    dest_folder,       \* parameter dest_folder
    destfs,            \* destination file system: folder -> (name -> content)
    copied,
    skipped,
    cpos,              \* position of the for-loop in `cfiles`
    kpc                \* "idle" | "start" | "loop" | "returned"

copyVars == <<cfiles, dest_folder, destfs, copied, skipped, cpos, kpc>>

VARIABLES
    \* ---- grouping of the missing records (main, lines 569-575) ----
    by_date,           \* dict date key -> list of missing records
    utc_offset,        \* offset of the machine's local time from UTC, seconds
    gpos,              \* position of the for-loop in `missing`
    gpc                \* "idle" | "loop" | "done"

groupVars == <<by_date, utc_offset, gpos, gpc>>

VARIABLES
    \* ---- prompt_copy_missing ----
    dest_path,         \* destination root chosen by the user
    last_dest,         \* content of LAST_DEST_FILE ("" when there is none)
    remaining_dates,   \* list of date keys not copied yet
    copied_folders,    \* list of the folders copied to
    ppc,               \* "idle" | "ask" | "loop" | "done"
    \* ---- observation of the dialogue (not program state) ----
    passes,            \* dates whose copy pass has completed, in order
    last_choice,       \* the answer the last round consumed
    cancelled,         \* KeyboardInterrupt was caught (line 392)
    finder_opened      \* line 388 ran

promptVars == <<dest_path, last_dest, remaining_dates, copied_folders, ppc,
                passes, last_choice, cancelled, finder_opened>>

VARIABLES
    \* ---- main (its sd_files, nas_files, local_files, backed_up_nas,
    \*      backed_up_local and missing are the variables of that name) ----
    nas_paths,         \* list of the remote roots (args or SYNOLOGY_FOLDERS)
    local_paths,       \* list of the local folders (args or LOCAL_FOLDERS)
    card,              \* enumeration of the files of the card
    args_output,       \* args.output is given
    nas_idx,           \* position of the for-loop over nas_paths
    scan_interrupted,  \* line 515
    output_lines,      \* lines passed to log(), as tags
    printed,           \* everything printed by main, as tags
    exit_status,       \* -1 while main runs
    report_written,    \* lines 619-621 ran
    mpc,               \* position of main
    \* ---- observation of the run (not program state) ----
    setup_failure,     \* cause of a sys.exit(1), "none" otherwise
    mscans             \* one record per returned scan_nas_folder call

mainVars == <<nas_paths, local_paths, card, args_output, nas_idx, scan_interrupted,
              output_lines, printed, exit_status, report_written, mpc, setup_failure,
              mscans>>

auxVars == <<locVars, copyVars, groupVars, promptVars, mainVars>>

vars == <<cmpVars, scanVars, auxVars>>

LocIdle ==
    /\ walk = <<>>
    /\ variant = "-"
    /\ root_exists = FALSE
    /\ lfiles = <<>>
    /\ lpos = 0
    /\ lpc = "idle"

CopyIdle ==
    /\ cfiles = <<>>
    /\ dest_folder = <<>>
    /\ destfs = <<>>
    /\ copied = 0
    /\ skipped = 0
    /\ cpos = 0
    /\ kpc = "idle"

GroupIdle ==
    /\ by_date = <<>>
    /\ utc_offset = 0
    /\ gpos = 0
    /\ gpc = "idle"

PromptIdle ==
    /\ dest_path = ""
    /\ last_dest = ""
    /\ remaining_dates = <<>>
    /\ copied_folders = <<>>
    /\ ppc = "idle"
    /\ passes = <<>>
    /\ last_choice = "-"
    /\ cancelled = FALSE
    /\ finder_opened = FALSE

MainIdle ==
    /\ nas_paths = <<>>
    /\ local_paths = <<>>
    /\ card = <<>>
    /\ args_output = FALSE
    /\ nas_idx = 0
    /\ scan_interrupted = FALSE
    /\ output_lines = <<>>
    /\ printed = <<>>
    /\ exit_status = -1
    /\ report_written = FALSE
    /\ mpc = "idle"
    /\ setup_failure = "none"
    /\ mscans = <<>>

AuxIdle == LocIdle /\ CopyIdle /\ GroupIdle /\ PromptIdle /\ MainIdle

----------------------------------------------------------------------------
(* Universe of file names.  str.lower() is modelled on this finite set.    *)

Names == {"a.jpg", "A.JPG", "b.jpg", "c.jpg"}

lower(n) == IF n = "A.JPG" THEN "a.jpg" ELSE IF n = ".JPG" THEN ".jpg" ELSE n

Keys == {lower(n) : n \in Names}

Abs(x) == IF x < 0 THEN -x ELSE x

EmptyDict == [k \in {} |-> 0]

\* d[k] = v  (Python dict item assignment)
DictSet(d, k, v) == [x \in (DOMAIN d) \cup {k} |-> IF x = k THEN v ELSE d[x]]

----------------------------------------------------------------------------
(* compare_files                                                           *)

CmpKeys     == {"a.jpg", "b.jpg"}
SdTimes     == {100, 111}
CandTimes   == {100, 110, 111}
CandSizes   == {1, 2}
Tolerances  == {0, 10}

SdRecords(k) ==
    {[name |-> n, size |-> 1, mtime |-> t, path |-> <<"sd", n>>] :
        n \in {m \in Names : lower(m) = k}, t \in SdTimes}

CandRecords(where) ==
    {[size |-> s, mtime |-> t, folder |-> where] : s \in CandSizes, t \in CandTimes}

\* every dict whose keys are a subset of `keys`, with d[k] in recs[k]
Dicts(keys, recs) ==
    UNION {{d \in [D -> UNION {recs[k] : k \in D}] : \A k \in D : d[k] \in recs[k]} :
              D \in SUBSET keys}

\* lines 411-413: key in nas_files and abs(mtime - nas_mtime) <= time_tolerance
NasHit_strict(key, sd, nas, tol) ==
    /\ key \in DOMAIN nas
    /\ Abs(sd[key].mtime - nas[key].mtime) < tol

NasHit(key, sd, nas, tol) ==
    /\ key \in DOMAIN nas
    /\ Abs(sd[key].mtime - nas[key].mtime) <= tol

\* line 417: if not found and key in local_files
LocalTried_always(found, key, local) == key \in DOMAIN local

LocalTried(found, key, local) == (~found) /\ key \in DOMAIN local

\* line 419: abs(mtime - local_mtime) <= time_tolerance
LocalHit(key, sd, local, tol) ==
    Abs(sd[key].mtime - local[key].mtime) <= tol

\* lines 414 / 420: (name, size, mtime, path, folder)
WithFolder(r, f) ==
    [name |-> r.name, size |-> r.size, mtime |-> r.mtime, path |-> r.path, folder |-> f]

\* One iteration of the for-loop body (lines 408-423): the three lists after
\* the record of `key` has been classified.
CompareBody_localFirst(key, sd, nas, local, tol, lists) ==
    LET r      == sd[key]
        found1 == LocalTried(FALSE, key, local) /\ LocalHit(key, sd, local, tol)
        l2     == IF found1 THEN Append(lists[2], WithFolder(r, local[key].folder))
                            ELSE lists[2]
        hit2   == (~found1) /\ NasHit(key, sd, nas, tol)
        l1     == IF hit2 THEN Append(lists[1], WithFolder(r, nas[key].folder))
                          ELSE lists[1]
        l3     == IF ~(found1 \/ hit2) THEN Append(lists[3], r) ELSE lists[3]
    IN  <<l1, l2, l3>>

CompareBody(key, sd, nas, local, tol, lists) ==
    LET r      == sd[key]
        found1 == NasHit(key, sd, nas, tol)
        l1     == IF found1 THEN Append(lists[1], WithFolder(r, nas[key].folder))
                            ELSE lists[1]
        hit2   == LocalTried(found1, key, local) /\ LocalHit(key, sd, local, tol)
        l2     == IF hit2 THEN Append(lists[2], WithFolder(r, local[key].folder))
                          ELSE lists[2]
        found2 == found1 \/ hit2
        l3     == IF ~found2 THEN Append(lists[3], r) ELSE lists[3]
    IN  <<l1, l2, l3>>

ScanIdle ==
    /\ tree = <<>>
    /\ target_files = <<>>
    /\ files = <<>>
    /\ folders_to_scan = <<>>
    /\ scanned_count = 0
    /\ remaining = {}
    /\ folder = <<>>
    /\ offset = 0
    /\ subdirs = <<>>
    /\ items = <<>>
    /\ idx = 0
    /\ pc = "idle"
    /\ result = "none"
    /\ was_interrupted = FALSE
    /\ fetches = <<>>
    /\ visited = <<>>
    /\ processed = <<>>
    /\ early_exit = FALSE
    /\ intr_at = "none"

CmpIdle ==
    /\ sd_files = <<>> /\ nas_files = <<>> /\ local_files = <<>>
    /\ todo = {} /\ backed_up_nas = <<>> /\ backed_up_local = <<>>
    /\ missing = <<>> /\ cpc = "idle"
    /\ time_tolerance = 0

InitCompare ==
    /\ ScanIdle
    /\ AuxIdle
    /\ sd_files \in Dicts(CmpKeys, [k \in CmpKeys |-> SdRecords(k)])
    /\ nas_files \in Dicts(CmpKeys, [k \in CmpKeys |-> CandRecords("nas")])
    /\ local_files \in Dicts(CmpKeys, [k \in CmpKeys |-> CandRecords("local")])
    /\ time_tolerance \in Tolerances
    /\ todo = DOMAIN sd_files
    /\ backed_up_nas = <<>>
    /\ backed_up_local = <<>>
    /\ missing = <<>>
    /\ cpc = "loop"

\* for key, (name, size, mtime, path) in sd_files.items(): ...
CompareStep ==
    /\ cpc = "loop"
    /\ \E key \in todo :
          LET out == CompareBody(key, sd_files, nas_files, local_files, time_tolerance,
                                 <<backed_up_nas, backed_up_local, missing>>)
          IN  /\ backed_up_nas' = out[1]
              /\ backed_up_local' = out[2]
              /\ missing' = out[3]
              /\ todo' = todo \ {key}
    /\ UNCHANGED <<sd_files, nas_files, local_files, time_tolerance, cpc>>
    /\ UNCHANGED <<scanVars, auxVars>>

\* return backed_up_nas, backed_up_local, missing
CompareReturn ==
    /\ cpc = "loop"
    /\ todo = {}
    /\ cpc' = "returned"
    /\ UNCHANGED <<sd_files, nas_files, local_files, time_tolerance, todo,
                   backed_up_nas, backed_up_local, missing>>
    /\ UNCHANGED <<scanVars, auxVars>>

NextCompare == CompareStep \/ CompareReturn

SpecCompare == InitCompare /\ [][NextCompare]_vars

----------------------------------------------------------------------------
(* scan_nas_folder: the remote tree                                        *)
(*                                                                         *)
(* Folder paths are sequences of naturals compared lexicographically, as   *)
(* Python compares the path strings.                                       *)

ROOT == <<1>>

Folders == {<<1>>, <<1, 1>>, <<1, 2>>, <<1, 3>>, <<1, 3, 1>>, <<1, 3, 2>>}

NoFolder == <<0>>

IsChild(c, p) == Len(c) = Len(p) + 1 /\ SubSeq(c, 1, Len(p)) = p

\* c lies strictly below p
IsBelow(c, p) == Len(c) > Len(p) /\ SubSeq(c, 1, Len(p)) = p

Siblings(p, q) == /\ p # q
                  /\ Len(p) = Len(q)
                  /\ Len(p) > 1
                  /\ SubSeq(p, 1, Len(p) - 1) = SubSeq(q, 1, Len(q) - 1)

RECURSIVE PathLess(_, _)
PathLess(p, q) ==
    IF p = <<>> THEN q # <<>>
    ELSE IF q = <<>> THEN FALSE
    ELSE IF Head(p) # Head(q) THEN Head(p) < Head(q)
    ELSE PathLess(Tail(p), Tail(q))

\* The files of the remote tree: name, size, mtime and the folders the file
\* may be placed in.
FileInst ==
    <<[name |-> "a.jpg", size |-> 1, mtime |-> 100,
       at |-> {NoFolder, <<1>>, <<1, 1>>, <<1, 2>>, <<1, 3>>, <<1, 3, 1>>}],
      [name |-> "A.JPG", size |-> 2, mtime |-> 111,
       at |-> {NoFolder, <<1, 2>>, <<1, 3>>}],
      [name |-> "b.jpg", size |-> 1, mtime |-> 110,
       at |-> {NoFolder, <<1, 2>>, <<1, 3, 2>>}],
      [name |-> "c.jpg", size |-> 3, mtime |-> 100,
       at |-> {<<1, 2>>}]>>

Placements == {l \in [1..Len(FileInst) -> Folders \cup {NoFolder}] :
                  \A i \in 1..Len(FileInst) : l[i] \in FileInst[i].at}

TargetOptions ==
    {<<>>, [k \in {"a.jpg"} |-> 100], [k \in {"b.jpg"} |-> 100],
     [k \in {"a.jpg", "b.jpg"} |-> 100]}

DirEntry(p) == [isdir |-> TRUE, name |-> "", path |-> p, size |-> 0, mtime |-> 0]

FileEntry(i, f) == [isdir |-> FALSE, name |-> FileInst[i].name, path |-> f,
                    size |-> FileInst[i].size, mtime |-> FileInst[i].mtime]

RECURSIVE SeqOfSet(_, _)
\* the elements of S as a sequence, ascending (desc = FALSE) or descending
SeqOfSet(S, desc) ==
    IF S = {} THEN <<>>
    ELSE LET m == CHOOSE x \in S : \A y \in S \ {x} :
                       IF desc THEN PathLess(y, x) ELSE PathLess(x, y)
         IN  <<m>> \o SeqOfSet(S \ {m}, desc)

RECURSIVE FilesIn(_, _, _)
FilesIn(f, l, i) ==
    IF i > Len(FileInst) THEN <<>>
    ELSE (IF l[i] = f THEN <<FileEntry(i, f)>> ELSE <<>>) \o FilesIn(f, l, i + 1)

Reverse(s) == [i \in 1..Len(s) |-> s[Len(s) + 1 - i]]

\* Listing order of a folder.  rev = FALSE: directories first, ascending,
\* then the files; rev = TRUE: files first (reversed), directories descending.
EntriesOf(f, l, rev) ==
    LET dirs == SeqOfSet({c \in Folders : IsChild(c, f)}, rev)
        de   == [i \in 1..Len(dirs) |-> DirEntry(dirs[i])]
        fe   == FilesIn(f, l, 1)
    IN  IF rev THEN Reverse(fe) \o de ELSE de \o fe

----------------------------------------------------------------------------
(* scan_nas_folder: the algorithm                                          *)

\* line 186: limit = 5000, scaled down to keep page boundaries reachable
limit == 2

\* line 165: time_tolerance: int = 10
DefaultTolerance == 10

\* listing failures (exception or result without data) allowed in one run
MaxFailures == 1

Min(a, b) == IF a < b THEN a ELSE b

\* fs.get_file_list(folder_path, limit, offset) of a listing that honours
\* limit and offset
Page(t, f, off, lim) == SubSeq(t[f], off + 1, Min(off + lim, Len(t[f])))

\* `if target_files` / `if remaining`: an empty (or None) collection is falsy
Truthy(c) == DOMAIN c # {}

\* line 175: remaining = set(target_files.keys()) if target_files else None.
\* None is represented by the empty set together with RemainingIsNone.
RemainingIsNone(tf) == ~Truthy(tf)

InitialRemaining(tf) == IF Truthy(tf) THEN DOMAIN tf ELSE {}

\* line 214: is_match = abs(mtime - target_mtime) <= time_tolerance
is_match_strict(mtime, target_mtime, tol) == Abs(mtime - target_mtime) < tol

is_match(mtime, target_mtime, tol) == Abs(mtime - target_mtime) <= tol

RECURSIVE Insert(_, _)
Insert(x, s) ==
    IF s = <<>> THEN <<x>>
    ELSE IF PathLess(Head(s), x) THEN <<Head(s)>> \o Insert(x, Tail(s))
    ELSE <<x>> \o s

RECURSIVE sorted(_)
sorted_none(s) == s

\* line 239: sorted(subdirs)
sorted(s) == IF s = <<>> THEN <<>> ELSE Insert(Head(s), sorted(Tail(s)))

\* line 179: folders_to_scan.pop() returns <<popped folder, rest of the stack>>
pop_front(stack) == <<Head(stack), Tail(stack)>>

pop_keep(stack) == <<stack[Len(stack)], stack>>

pop(stack) == <<stack[Len(stack)], SubSeq(stack, 1, Len(stack) - 1)>>

ProcessItem_lastWins(item, fld, fs, rem, subs, tf, tol) ==
    IF item.isdir
    THEN [files |-> fs, remaining |-> rem, subdirs |-> Append(subs, item.path)]
    ELSE
      LET name == lower(item.name)
          rec  == [size |-> item.size, mtime |-> item.mtime, folder |-> fld]
          m    == Truthy(tf) /\ name \in DOMAIN tf /\ is_match(item.mtime, tf[name], tol)
      IN  [files |-> DictSet(fs, name, rec),
           remaining |-> IF m /\ rem # {} THEN rem \ {name} ELSE rem,
           subdirs |-> subs]

ProcessItem_firstOnly(item, fld, fs, rem, subs, tf, tol) ==
    IF item.isdir
    THEN [files |-> fs, remaining |-> rem, subdirs |-> Append(subs, item.path)]
    ELSE
      LET name == lower(item.name)
          rec  == [size |-> item.size, mtime |-> item.mtime, folder |-> fld]
          m    == Truthy(tf) /\ name \in DOMAIN tf /\ is_match(item.mtime, tf[name], tol)
      IN
      IF name \notin DOMAIN fs
      THEN [files |-> DictSet(fs, name, rec),
            remaining |-> IF m /\ rem # {} THEN rem \ {name} ELSE rem,
            subdirs |-> subs]
      ELSE [files |-> fs, remaining |-> rem, subdirs |-> subs]

\* lines 204-225: the body of `for item in items` for one item
ProcessItem(item, fld, fs, rem, subs, tf, tol) ==
    IF item.isdir
    THEN [files |-> fs, remaining |-> rem, subdirs |-> Append(subs, item.path)]
    ELSE
      LET name == lower(item.name)
          rec  == [size |-> item.size, mtime |-> item.mtime, folder |-> fld]
          same == [files |-> fs, remaining |-> rem, subdirs |-> subs]
      IN
      IF Truthy(tf) /\ name \in DOMAIN tf
      THEN
        LET m == is_match(item.mtime, tf[name], tol) IN
        IF name \notin DOMAIN fs
        THEN [files |-> DictSet(fs, name, rec),
              remaining |-> IF m /\ rem # {} THEN rem \ {name} ELSE rem,
              subdirs |-> subs]
        ELSE IF m /\ rem # {} /\ name \in rem
        THEN [files |-> DictSet(fs, name, rec), remaining |-> rem \ {name},
              subdirs |-> subs]
        ELSE same
      ELSE IF name \notin DOMAIN fs
      THEN [files |-> DictSet(fs, name, rec), remaining |-> rem, subdirs |-> subs]
      ELSE same

\* line 228: if len(items) < limit: break
LastPage_le(its, lim) == Len(its) <= lim

LastPage(its, lim) == Len(its) < lim

\* line 233: if remaining is not None and len(remaining) == 0
AllFound_never(tf, rem) == FALSE

AllFound(tf, rem) == (~RemainingIsNone(tf)) /\ Cardinality(rem) = 0

\* lines 240-243: `except Exception as e` of the per-folder try.
\* KeyboardInterrupt derives from BaseException, not from Exception.
InnerHandler_swallow(e) == "warn"

InnerHandler_none(e) == "propagate"

InnerHandler(e) ==
    IF e = "Exception" THEN "warn"
    ELSE "propagate"

\* line 244: `except KeyboardInterrupt` of the outer try
OuterHandler(e) == IF e = "KeyboardInterrupt" THEN "return" ELSE "propagate"

\* line 243: after the warning the while-loop goes on with the stack as it is
StackAfterWarn_push(stack, subs) == stack \o sorted(subs)

StackAfterWarn(stack, subs) == stack

InitScan ==
    /\ AuxIdle
    /\ sd_files = <<>> /\ nas_files = <<>> /\ local_files = <<>>
    /\ todo = {} /\ backed_up_nas = <<>> /\ backed_up_local = <<>>
    /\ missing = <<>> /\ cpc = "idle"
    /\ time_tolerance = DefaultTolerance
    /\ \E l \in Placements, rev \in BOOLEAN :
          tree = [f \in Folders |-> EntriesOf(f, l, rev)]
    /\ target_files \in TargetOptions
    /\ files = <<>>
    /\ folders_to_scan = <<ROOT>>
    /\ scanned_count = 0
    /\ remaining = InitialRemaining(target_files)
    /\ folder = <<>>
    /\ offset = 0
    /\ subdirs = <<>>
    /\ items = <<>>
    /\ idx = 0
    /\ pc = "loop"
    /\ result = "none"
    /\ was_interrupted = FALSE
    /\ fetches = <<>>
    /\ visited = <<>>
    /\ processed = <<>>
    /\ early_exit = FALSE
    /\ intr_at = "none"

FetchRec(outcome, n) == [folder |-> folder, offset |-> offset, outcome |-> outcome, n |-> n]

Failures == Cardinality({i \in 1..Len(fetches) : fetches[i].outcome \in {"error", "nodata"}})

\* An exception e raised at the current position inside the per-folder try
\* (inner = TRUE) or in the while-loop outside it.
Raise(e, inner) ==
    LET h == IF inner THEN InnerHandler(e) ELSE "propagate" IN
    IF h = "warn"
    THEN /\ pc' = "loop"
         /\ folders_to_scan' = StackAfterWarn(folders_to_scan, subdirs)
         /\ UNCHANGED <<result, was_interrupted>>
    ELSE IF OuterHandler(e) = "return"
    THEN /\ pc' = "done"
         /\ result' = "returned"
         /\ was_interrupted' = TRUE
         /\ UNCHANGED folders_to_scan
    ELSE /\ pc' = "done"
         /\ result' = "raised"
         /\ UNCHANGED <<folders_to_scan, was_interrupted>>

\* lines 178-187: while folders_to_scan: folder = folders_to_scan.pop() ...
PopFolder ==
    /\ pc = "loop"
    /\ folders_to_scan # <<>>
    /\ LET p == pop(folders_to_scan) IN
          /\ folder' = p[1]
          /\ folders_to_scan' = p[2]
          /\ visited' = Append(visited, p[1])
    /\ scanned_count' = scanned_count + 1
    /\ offset' = 0
    /\ subdirs' = <<>>
    /\ processed' = <<>>
    /\ pc' = "fetch"
    /\ UNCHANGED <<tree, target_files, files, remaining, items, idx, result,
                   was_interrupted, fetches, early_exit, intr_at>>
    /\ UNCHANGED <<cmpVars, auxVars>>

\* lines 178, 249-251: the stack is empty, return files, False
ScanFinished ==
    /\ pc = "loop"
    /\ folders_to_scan = <<>>
    /\ pc' = "done"
    /\ result' = "returned"
    /\ was_interrupted' = FALSE
    /\ UNCHANGED <<tree, target_files, files, folders_to_scan, scanned_count, remaining,
                   folder, offset, subdirs, items, idx, fetches, visited, processed,
                   early_exit, intr_at>>
    /\ UNCHANGED <<cmpVars, auxVars>>

\* lines 190-202: the listing call returns a page
FetchPage ==
    /\ pc = "fetch"
    /\ LET its == Page(tree, folder, offset, limit) IN
          /\ fetches' = Append(fetches, FetchRec("page", Len(its)))
          /\ items' = its
          /\ IF its = <<>>
             THEN pc' = "check" /\ idx' = 0
             ELSE pc' = "items" /\ idx' = 1
    /\ UNCHANGED <<tree, target_files, files, folders_to_scan, scanned_count, remaining,
                   folder, offset, subdirs, result, was_interrupted, visited, processed,
                   early_exit, intr_at>>
    /\ UNCHANGED <<cmpVars, auxVars>>

\* lines 197-198: the listing call returns nothing usable
FetchNoData ==
    /\ pc = "fetch"
    /\ Failures < MaxFailures
    /\ fetches' = Append(fetches, FetchRec("nodata", 0))
    /\ pc' = "check"
    /\ UNCHANGED <<tree, target_files, files, folders_to_scan, scanned_count, remaining,
                   folder, offset, subdirs, items, idx, result, was_interrupted, visited,
                   processed, early_exit, intr_at>>
    /\ UNCHANGED <<cmpVars, auxVars>>

\* lines 190, 240-243: the listing call raises an exception
FetchError ==
    /\ pc = "fetch"
    /\ Failures < MaxFailures
    /\ fetches' = Append(fetches, FetchRec("error", 0))
    /\ Raise("Exception", TRUE)
    /\ UNCHANGED <<tree, target_files, files, scanned_count, remaining,
                   folder, offset, subdirs, items, idx, visited,
                   processed, early_exit, intr_at>>
    /\ UNCHANGED <<cmpVars, auxVars>>

\* lines 190, 244-247: Ctrl+C while the listing call blocks
FetchInterrupted ==
    /\ pc = "fetch"
    /\ fetches' = Append(fetches, FetchRec("interrupt", 0))
    /\ intr_at' = "call"
    /\ Raise("KeyboardInterrupt", TRUE)
    /\ UNCHANGED <<tree, target_files, files, scanned_count, remaining,
                   folder, offset, subdirs, items, idx, visited,
                   processed, early_exit>>
    /\ UNCHANGED <<cmpVars, auxVars>>

\* lines 204-230: one item of the page; after the last item of the page the
\* page-length test decides between the next page and the end of the folder
Item ==
    /\ pc = "items"
    /\ LET r == ProcessItem(items[idx], folder, files, remaining, subdirs,
                            target_files, time_tolerance)
       IN  /\ files' = r.files
           /\ remaining' = r.remaining
           /\ subdirs' = r.subdirs
    /\ processed' = Append(processed, items[idx])
    /\ IF idx < Len(items)
       THEN /\ idx' = idx + 1
            /\ UNCHANGED <<pc, offset>>
       ELSE /\ idx' = 0
            /\ IF LastPage(items, limit)
               THEN pc' = "check" /\ UNCHANGED offset
               ELSE pc' = "fetch" /\ offset' = offset + limit
    /\ UNCHANGED <<tree, target_files, folders_to_scan, scanned_count, folder, items,
                   result, was_interrupted, fetches, visited, early_exit, intr_at>>
    /\ UNCHANGED <<cmpVars, auxVars>>

\* lines 232-236: all targets found, return files, False
EarlyExit ==
    /\ pc = "check"
    /\ AllFound(target_files, remaining)
    /\ pc' = "done"
    /\ result' = "returned"
    /\ was_interrupted' = FALSE
    /\ early_exit' = TRUE
    /\ UNCHANGED <<tree, target_files, files, folders_to_scan, scanned_count, remaining,
                   folder, offset, subdirs, items, idx, fetches, visited, processed,
                   intr_at>>
    /\ UNCHANGED <<cmpVars, auxVars>>

\* lines 238-239: folders_to_scan.extend(sorted(subdirs))
PushSubdirs ==
    /\ pc = "check"
    /\ ~AllFound(target_files, remaining)
    /\ folders_to_scan' = folders_to_scan \o sorted(subdirs)
    /\ pc' = "loop"
    /\ UNCHANGED <<tree, target_files, files, scanned_count, remaining,
                   folder, offset, subdirs, items, idx, result, was_interrupted, fetches,
                   visited, processed, early_exit, intr_at>>
    /\ UNCHANGED <<cmpVars, auxVars>>

\* lines 177-247: Ctrl+C between two steps of the scan
Interrupt ==
    /\ pc \in {"loop", "fetch", "items", "check"}
    /\ intr_at' = pc
    /\ Raise("KeyboardInterrupt", pc # "loop")
    /\ UNCHANGED <<tree, target_files, files, scanned_count, remaining,
                   folder, offset, subdirs, items, idx, fetches, visited,
                   processed, early_exit>>
    /\ UNCHANGED <<cmpVars, auxVars>>

NextScan ==
    \/ PopFolder
    \/ ScanFinished
    \/ FetchPage
    \/ FetchNoData
    \/ FetchError
    \/ FetchInterrupted
    \/ Item
    \/ EarlyExit
    \/ PushSubdirs
    \/ Interrupt

SpecScan == InitScan /\ [][NextScan]_vars

\* the scan is a sequential program: while it has not returned it takes its
\* next step
SpecScanFair == SpecScan /\ WF_vars(NextScan)

----------------------------------------------------------------------------
(* scan_sd_card and scan_local_folder                                      *)

\* lines 41-45
PHOTO_EXTS == {".jpg", ".jpeg", ".heic", ".heif", ".png", ".tiff", ".tif"}
RAW_EXTS == {".cr2", ".cr3", ".arw", ".nef", ".dng", ".raf", ".orf", ".rw2"}
VIDEO_EXTS == {".mp4", ".mov", ".avi", ".mts", ".m4v"}
SIDECAR_EXTS == {".xmp", ".json", ".aae"}
MEDIA_EXTS == PHOTO_EXTS \cup RAW_EXTS \cup VIDEO_EXTS \cup SIDECAR_EXTS

\* Path.suffix on the file names of the model
suffix(n) ==
    IF n \in {"a.jpg", "b.jpg", "c.jpg"} THEN ".jpg"
    ELSE IF n = "A.JPG" THEN ".JPG"
    ELSE IF n = "notes.txt" THEN ".txt"
    ELSE ""

\* lines 117-119
is_media_file(n) == lower(suffix(n)) \in MEDIA_EXTS

\* the paths a card or folder may hold: files of two directories (the
\* directory fixes the modification time) and one directory entry
WalkEntries ==
    {[name |-> n, dir |-> d, size |-> 1, mtime |-> IF d = "d1" THEN 100 ELSE 111,
      is_file |-> TRUE] : n \in {"a.jpg", "A.JPG", "b.jpg", "notes.txt"}, d \in {"d1", "d2"}}
    \cup {[name |-> "c.jpg", dir |-> "d1", size |-> 0, mtime |-> 100, is_file |-> FALSE]}

\* longest enumeration of one scan
MaxWalk == 3

Walks == {w \in UNION {[1..n -> WalkEntries] : n \in 0..MaxWalk} :
             \A i, j \in 1..Len(w) : i # j => w[i] # w[j]}

\* lines 132-135: the body of the for-loop of scan_sd_card
SdBody(p, fs) ==
    IF p.is_file /\ is_media_file(p.name)
    THEN DictSet(fs, lower(p.name),
                 [name |-> p.name, size |-> p.size, mtime |-> p.mtime,
                  path |-> <<p.dir, p.name>>])
    ELSE fs

\* lines 151-155: the body of the for-loop of scan_local_folder
LocalBody(p, fs) ==
    IF p.is_file /\ is_media_file(p.name)
    THEN LET name == lower(p.name) IN
         IF name \notin DOMAIN fs
         THEN DictSet(fs, name, [size |-> p.size, mtime |-> p.mtime, folder |-> p.dir])
         ELSE fs
    ELSE fs

RECURSIVE scan_sd_card(_, _)
\* lines 131-137: the dict scan_sd_card returns for an existing card
scan_sd_card(w, fs) ==
    IF w = <<>> THEN fs ELSE scan_sd_card(Tail(w), SdBody(Head(w), fs))

RECURSIVE scan_local_folder(_, _)
\* lines 150-157: the dict scan_local_folder returns for an existing folder
scan_local_folder(w, fs) ==
    IF w = <<>> THEN fs ELSE scan_local_folder(Tail(w), LocalBody(Head(w), fs))

InitLocal ==
    /\ CmpIdle
    /\ ScanIdle
    /\ CopyIdle
    /\ GroupIdle
    /\ PromptIdle
    /\ MainIdle
    /\ walk \in Walks
    /\ variant \in {"sd", "local"}
    /\ root_exists \in BOOLEAN
    /\ root_exists = FALSE => walk = <<>>
    /\ lfiles = <<>>
    /\ lpos = 0
    /\ lpc = "start"

\* lines 127-129 / 145-148: the root does not exist
LocalRootMissing ==
    /\ lpc = "start"
    /\ ~root_exists
    /\ lpc' = IF variant = "sd" THEN "exit1" ELSE "returned"
    /\ UNCHANGED <<walk, variant, root_exists, lfiles, lpos>>
    /\ UNCHANGED <<cmpVars, scanVars, copyVars, groupVars, promptVars, mainVars>>

\* lines 131 / 150: the root exists, the enumeration starts
LocalRootFound ==
    /\ lpc = "start"
    /\ root_exists
    /\ lpc' = "walk"
    /\ lpos' = 1
    /\ UNCHANGED <<walk, variant, root_exists, lfiles>>
    /\ UNCHANGED <<cmpVars, scanVars, copyVars, groupVars, promptVars, mainVars>>

\* lines 131-135 / 150-155: one enumerated path
LocalStep ==
    /\ lpc = "walk"
    /\ lpos <= Len(walk)
    /\ lfiles' = IF variant = "sd" THEN SdBody(walk[lpos], lfiles)
                                   ELSE LocalBody(walk[lpos], lfiles)
    /\ lpos' = lpos + 1
    /\ UNCHANGED <<walk, variant, root_exists, lpc>>
    /\ UNCHANGED <<cmpVars, scanVars, copyVars, groupVars, promptVars, mainVars>>

\* lines 137 / 157: return files
LocalReturn ==
    /\ lpc = "walk"
    /\ lpos > Len(walk)
    /\ lpc' = "returned"
    /\ UNCHANGED <<walk, variant, root_exists, lfiles, lpos>>
    /\ UNCHANGED <<cmpVars, scanVars, copyVars, groupVars, promptVars, mainVars>>

NextLocal == LocalRootMissing \/ LocalRootFound \/ LocalStep \/ LocalReturn

SpecLocal == InitLocal /\ [][NextLocal]_vars

----------------------------------------------------------------------------
(* copy_files_to_folder                                                    *)
(*                                                                         *)
(* A source path is <<directory, name>>.  The destination file system maps *)
(* a folder to the dict name -> content of its files; the content of a     *)
(* copied file is its source path, of a file that was there before         *)
(* <<"old", name>>.                                                        *)

SrcName(src) == src[2]

CopySources == {<<"sd", "a.jpg">>, <<"sd", "b.jpg">>, <<"sd2", "a.jpg">>}

\* longest list of files of one copy pass
MaxCopy == 3

DstFolder == <<"dot", <<1970, 1, 1>>, "">>

OldFiles(names) == [n \in names |-> <<"old", n>>]

\* line 286: dest_folder.mkdir(parents=True, exist_ok=True)
mkdir(fs, f) == IF f \in DOMAIN fs THEN fs ELSE DictSet(fs, f, <<>>)

\* line 291: dest.exists()
dest_exists_never(fs, f, name) == FALSE

dest_exists(fs, f, name) == name \in DOMAIN fs[f]

\* lines 290-295: the body of the for-loop for one source file
CopyBody(src, f, st) ==
    IF dest_exists(st.fs, f, SrcName(src))
    THEN [fs |-> st.fs, copied |-> st.copied, skipped |-> st.skipped + 1]
    ELSE [fs |-> DictSet(st.fs, f, DictSet(st.fs[f], SrcName(src), src)),
          copied |-> st.copied + 1, skipped |-> st.skipped]

RECURSIVE CopyLoop(_, _, _)
CopyLoop(srcs, f, st) ==
    IF srcs = <<>> THEN st ELSE CopyLoop(Tail(srcs), f, CopyBody(Head(srcs), f, st))

\* lines 283-296: the file system and the counts copy_files_to_folder leaves
copy_files_to_folder(srcs, f, fs) ==
    CopyLoop(srcs, f, [fs |-> mkdir(fs, f), copied |-> 0, skipped |-> 0])

InitCopy ==
    /\ CmpIdle
    /\ ScanIdle
    /\ LocIdle
    /\ GroupIdle
    /\ PromptIdle
    /\ MainIdle
    /\ cfiles \in UNION {[1..n -> CopySources] : n \in 0..MaxCopy}
    /\ dest_folder = DstFolder
    /\ destfs \in {<<>>} \cup
                  {DictSet(<<>>, DstFolder, OldFiles(N)) : N \in SUBSET {"a.jpg", "b.jpg"}}
    /\ copied = 0
    /\ skipped = 0
    /\ cpos = 0
    /\ kpc = "start"

\* lines 286-288
CopyStart ==
    /\ kpc = "start"
    /\ destfs' = mkdir(destfs, dest_folder)
    /\ copied' = 0
    /\ skipped' = 0
    /\ cpos' = 1
    /\ kpc' = "loop"
    /\ UNCHANGED <<cfiles, dest_folder>>
    /\ UNCHANGED <<cmpVars, scanVars, locVars, groupVars, promptVars, mainVars>>

\* lines 289-295: one source file
CopyStep ==
    /\ kpc = "loop"
    /\ cpos <= Len(cfiles)
    /\ LET st == CopyBody(cfiles[cpos], dest_folder,
                          [fs |-> destfs, copied |-> copied, skipped |-> skipped])
       IN  /\ destfs' = st.fs
           /\ copied' = st.copied
           /\ skipped' = st.skipped
    /\ cpos' = cpos + 1
    /\ UNCHANGED <<cfiles, dest_folder, kpc>>
    /\ UNCHANGED <<cmpVars, scanVars, locVars, groupVars, promptVars, mainVars>>

\* line 296: return copied, skipped
CopyReturn ==
    /\ kpc = "loop"
    /\ cpos > Len(cfiles)
    /\ kpc' = "returned"
    /\ UNCHANGED <<cfiles, dest_folder, destfs, copied, skipped, cpos>>
    /\ UNCHANGED <<cmpVars, scanVars, locVars, groupVars, promptVars, mainVars>>

NextCopy == CopyStart \/ CopyStep \/ CopyReturn

SpecCopy == InitCopy /\ [][NextCopy]_vars

----------------------------------------------------------------------------
(* Grouping of the missing records by date (main, lines 569-575)           *)

\* seconds of a calendar day (datetime.fromtimestamp)
SecondsPerDay == 86400

\* the calendar date <<year, month, day>> of the n-th day after 1970-01-01,
\* for the first three months of 1970
CivilFromDays(n) ==
    IF n < 31 THEN <<1970, 1, n + 1>>
    ELSE IF n < 59 THEN <<1970, 2, n - 30>>
    ELSE <<1970, 3, n - 58>>

\* line 574: datetime.fromtimestamp(mtime).strftime('%Y-%m-%d'); the date
\* key is the triple <<year, month, day>>, ordered like the padded string
date_key_utc(mtime, off) == CivilFromDays(mtime \div SecondsPerDay)

date_key(mtime, off) == CivilFromDays((mtime + off) \div SecondsPerDay)

\* line 575: by_date[date_key].append((name, size, mtime, path))
GroupBody(r, bd, off) ==
    LET k == date_key(r.mtime, off) IN
    DictSet(bd, k, IF k \in DOMAIN bd THEN Append(bd[k], r) ELSE <<r>>)

RECURSIVE GroupLoop(_, _, _)
\* lines 572-575: the dict by_date of a list of missing records
GroupLoop(recs, bd, off) ==
    IF recs = <<>> THEN bd ELSE GroupLoop(Tail(recs), GroupBody(Head(recs), bd, off), off)

\* 01:00 and 23:00 of 1 Jan, 00:00 of 2 Jan, the last second of January and
\* the first of February (UTC)
GroupTimes == {3600, 82800, 86400, 2678399, 2678400}

UtcOffsets == {0, 3600}

\* longest list of missing records
MaxMissing == 3

MissingRecords ==
    {[name |-> n, size |-> 1, mtime |-> t, path |-> <<"sd", n>>] :
        n \in {"a.jpg", "b.jpg", "c.jpg"}, t \in GroupTimes}

MissingLists ==
    {m \in UNION {[1..n -> MissingRecords] : n \in 0..MaxMissing} :
        \A i, j \in 1..Len(m) : i # j => m[i].name # m[j].name}

InitGroup ==
    /\ ScanIdle
    /\ LocIdle
    /\ CopyIdle
    /\ PromptIdle
    /\ MainIdle
    /\ sd_files = <<>> /\ nas_files = <<>> /\ local_files = <<>>
    /\ todo = {} /\ backed_up_nas = <<>> /\ backed_up_local = <<>>
    /\ cpc = "idle"
    /\ time_tolerance = 0
    /\ missing \in MissingLists
    /\ utc_offset \in UtcOffsets
    /\ by_date = <<>>
    /\ gpos = 1
    /\ gpc = "loop"

\* lines 573-575: one missing record
GroupStep ==
    /\ gpc = "loop"
    /\ gpos <= Len(missing)
    /\ by_date' = GroupBody(missing[gpos], by_date, utc_offset)
    /\ gpos' = gpos + 1
    /\ UNCHANGED <<utc_offset, gpc>>
    /\ UNCHANGED <<cmpVars, scanVars, locVars, copyVars, promptVars, mainVars>>

\* line 577: the loop is over
GroupDone ==
    /\ gpc = "loop"
    /\ gpos > Len(missing)
    /\ gpc' = "done"
    /\ UNCHANGED <<by_date, utc_offset, gpos>>
    /\ UNCHANGED <<cmpVars, scanVars, locVars, copyVars, promptVars, mainVars>>

NextGroup == GroupStep \/ GroupDone

SpecGroup == InitGroup /\ [][NextGroup]_vars

----------------------------------------------------------------------------
(* prompt_copy_missing                                                     *)
(*                                                                         *)
(* A folder of the destination root is named <<style, date, rest>>:        *)
(* <<"dash", d, r>> is "YYYY-MM-DD" followed by r, <<"dot", d, r>> is      *)
(* "YYYY.MM.DD" followed by r, any other style does not start with a date. *)

\* destination roots that exist on disk
ExistingRoots == {"/dst"}

\* line 276: date_str.replace('-', '.'), also the new folder of lines 375/377
date_dot(d) == <<"dot", d, "">>

\* lines 277-279: the folders find_matching_date_folder may return (the
\* first match in directory order), the empty set when it returns None
MatchingFolders(fs, d) ==
    {f \in DOMAIN fs : f[2] = d /\ f[1] \in {"dash", "dot"}}

\* line 337: sorted(by_date.keys(), reverse=True)
SortedDesc(K) == SeqOfSet(K, TRUE)

\* line 384: remaining_dates.remove(selected_date)
ListRemove_head(l, d) == Tail(l)

ListRemove(l, d) ==
    LET i == CHOOSE j \in 1..Len(l) : l[j] = d /\ \A h \in 1..(j - 1) : l[h] # d
    IN  SubSeq(l, 1, i - 1) \o SubSeq(l, i + 1, Len(l))

\* answers typed at "Copy from which date?"
Choices == {"q", "Q", "0", "1", "2", "3", "4", "x"}

\* int(choice): the value, or "ValueError"
IntOf(c) ==
    IF c = "0" THEN 0 ELSE IF c = "1" THEN 1 ELSE IF c = "2" THEN 2
    ELSE IF c = "3" THEN 3 ELSE IF c = "4" THEN 4 ELSE -1

IsInt(c) == c \in {"0", "1", "2", "3", "4"}

\* line 351: choice.lower() == 'q'
IsQuit(c) == c \in {"q", "Q"}

\* lines 354-361: the index chosen, 0-based, or -1 for "ask again"
ChosenIndex(c, n) ==
    IF ~IsInt(c) THEN -1
    ELSE LET i == IntOf(c) - 1 IN IF 0 <= i /\ i < n THEN i ELSE -1

\* line 366: file_paths = [path for name, size, mtime, path in files]
FilePaths(recs) == [i \in 1..Len(recs) |-> recs[i].path]

PromptTimes == {3600, 86400, 2678400}

\* the groups main may hand over: at least one missing record
PromptGroups ==
    {GroupLoop(m, <<>>, 0) :
        m \in {x \in MissingLists :
                  /\ x # <<>>
                  /\ \A i \in 1..Len(x) : x[i].mtime \in PromptTimes}}

PromptDisks ==
    {<<>>,
     DictSet(<<>>, <<"dash", <<1970, 1, 2>>, " trip">>, OldFiles({"a.jpg"})),
     DictSet(DictSet(<<>>, <<"dot", <<1970, 1, 1>>, "">>, OldFiles({"b.jpg"})),
             <<"x", <<1970, 2, 1>>, "">>, <<>>)}

InitPrompt ==
    /\ ScanIdle
    /\ LocIdle
    /\ MainIdle
    /\ CmpIdle
    /\ cfiles = <<>> /\ dest_folder = <<>> /\ copied = 0 /\ skipped = 0
    /\ cpos = 0 /\ kpc = "idle"
    /\ utc_offset = 0 /\ gpos = 0 /\ gpc = "idle"
    /\ by_date \in PromptGroups
    /\ destfs \in PromptDisks
    /\ last_dest \in {"", "/dst"}
    /\ dest_path = ""
    /\ remaining_dates = <<>>
    /\ copied_folders = <<>>
    /\ ppc = "ask"
    /\ passes = <<>>
    /\ last_choice = "-"
    /\ cancelled = FALSE
    /\ finder_opened = FALSE

PromptFrame == UNCHANGED <<cmpVars, scanVars, locVars, groupVars, mainVars,
                           cfiles, dest_folder, copied, skipped, cpos, kpc>>

\* lines 317-338: the questions before the loop
PromptStart ==
    /\ ppc = "ask"
    /\ \E answer \in {"y", "n"}, dest_input \in {"", "/dst", "/nope"} :
          LET dp == IF last_dest # ""
                    THEN (IF dest_input # "" THEN dest_input ELSE last_dest)
                    ELSE dest_input
          IN  /\ last_choice' = answer
              /\ IF answer # "y" \/ dp = "" \/ dp \notin ExistingRoots
                 THEN /\ ppc' = "done"
                      /\ UNCHANGED <<dest_path, last_dest, remaining_dates>>
                 ELSE /\ ppc' = "loop"
                      /\ dest_path' = dp
                      /\ last_dest' = dp
                      /\ remaining_dates' = SortedDesc(DOMAIN by_date)
    /\ UNCHANGED <<destfs, copied_folders, passes, cancelled, finder_opened>>
    /\ PromptFrame

\* lines 340, 386-390: no date remains
PromptLoopEnd ==
    /\ ppc = "loop"
    /\ remaining_dates = <<>>
    /\ ppc' = "done"
    /\ finder_opened' = (copied_folders # <<>>)
    /\ last_choice' = "-"
    /\ UNCHANGED <<dest_path, last_dest, remaining_dates, copied_folders, destfs,
                   passes, cancelled>>
    /\ PromptFrame

\* lines 350-352, 386-390: the user quits
PromptQuit ==
    /\ ppc = "loop"
    /\ Len(remaining_dates) > 1
    /\ \E choice \in Choices :
          /\ IsQuit(choice)
          /\ last_choice' = choice
    /\ ppc' = "done"
    /\ finder_opened' = (copied_folders # <<>>)
    /\ UNCHANGED <<dest_path, last_dest, remaining_dates, copied_folders, destfs,
                   passes, cancelled>>
    /\ PromptFrame

\* lines 354-361: an answer that is no number of the list
PromptInvalid ==
    /\ ppc = "loop"
    /\ Len(remaining_dates) > 1
    /\ \E choice \in Choices :
          /\ ~IsQuit(choice)
          /\ ChosenIndex(choice, Len(remaining_dates)) = -1
          /\ last_choice' = choice
    /\ UNCHANGED <<dest_path, last_dest, remaining_dates, copied_folders, destfs, ppc,
                   passes, cancelled, finder_opened>>
    /\ PromptFrame

\* the date of this round: the only one left (lines 342-343) or the one the
\* answer selects (line 363)
Selected(choice) ==
    IF Len(remaining_dates) = 1 THEN remaining_dates[1]
    ELSE remaining_dates[ChosenIndex(choice, Len(remaining_dates)) + 1]

RoundChoices ==
    IF Len(remaining_dates) = 1 THEN {"auto"}
    ELSE {c \in Choices : ~IsQuit(c) /\ ChosenIndex(c, Len(remaining_dates)) # -1}

\* lines 369-377: the folders this round may copy to, given the answer to
\* "Copy there?"
TargetFolders(d, use_existing) ==
    LET m == MatchingFolders(destfs, d) IN
    IF m # {} /\ use_existing = "y" THEN m ELSE {date_dot(d)}

\* lines 342-384: one round that copies a date
PromptCopy ==
    /\ ppc = "loop"
    /\ remaining_dates # <<>>
    /\ \E choice \in RoundChoices, use_existing \in {"y", "n"} :
          LET d == Selected(choice) IN
          \E f \in TargetFolders(d, use_existing) :
              LET r == copy_files_to_folder(FilePaths(by_date[d]), f, destfs) IN
              /\ destfs' = r.fs
              /\ copied_folders' = Append(copied_folders, f)
              /\ remaining_dates' = ListRemove(remaining_dates, d)
              /\ passes' = Append(passes, d)
              /\ last_choice' = choice
    /\ UNCHANGED <<dest_path, last_dest, ppc, cancelled, finder_opened>>
    /\ PromptFrame

\* lines 379-380, 392-393: Ctrl+C while the files of a date are copied
PromptCopyInterrupted ==
    /\ ppc = "loop"
    /\ remaining_dates # <<>>
    /\ \E choice \in RoundChoices, use_existing \in {"y", "n"} :
          LET d == Selected(choice) IN
          \E f \in TargetFolders(d, use_existing), k \in 0..(Len(by_date[d]) - 1) :
              /\ destfs' = copy_files_to_folder(SubSeq(FilePaths(by_date[d]), 1, k),
                                                f, destfs).fs
              /\ last_choice' = choice
    /\ cancelled' = TRUE
    /\ ppc' = "done"
    /\ UNCHANGED <<dest_path, last_dest, remaining_dates, copied_folders, passes,
                   finder_opened>>
    /\ PromptFrame

\* lines 317-371, 392-393: Ctrl+C at a prompt
PromptInterrupt ==
    /\ ppc \in {"ask", "loop"}
    /\ ppc = "loop" => remaining_dates # <<>>
    /\ cancelled' = TRUE
    /\ last_choice' = "^C"
    /\ ppc' = "done"
    /\ UNCHANGED <<dest_path, last_dest, remaining_dates, copied_folders, destfs, passes,
                   finder_opened>>
    /\ PromptFrame

NextPrompt ==
    \/ PromptStart
    \/ PromptLoopEnd
    \/ PromptQuit
    \/ PromptInvalid
    \/ PromptCopy
    \/ PromptCopyInterrupted
    \/ PromptInterrupt

SpecPrompt == InitPrompt /\ [][NextPrompt]_vars

----------------------------------------------------------------------------
(* main                                                                    *)
(*                                                                         *)
(* The remote roots are subfolders of the tree of the scanner; a call of   *)
(* scan_nas_folder is the run of the scan actions from its start state to  *)
(* pc = "done", a call of compare_files the run of the compare actions.    *)
(* Messages are kept as tags; log() adds to output_lines and to printed,   *)
(* print() to printed only.                                                *)

\* lines 519, 527: the tolerance main uses for "matched"
MainTolerance == 10

\* line 513: sd_file_mtimes
SdFileMtimes(sd) == [k \in DOMAIN sd |-> sd[k].mtime]

\* line 519: remaining_mtimes
RemainingMtimes_all(sdm, nas) == sdm

RemainingMtimes(sdm, nas) ==
    [k \in {x \in DOMAIN sdm :
               x \notin DOMAIN nas \/ Abs(nas[x].mtime - sdm[x]) > MainTolerance}
        |-> sdm[k]]

\* lines 526-529: all_matched
all_matched(sdm, nas) ==
    \A k \in DOMAIN sdm : k \in DOMAIN nas /\ Abs(nas[k].mtime - sdm[k]) <= MainTolerance

\* lines 521, 543: dict.update
DictUpdate(d, e) ==
    [k \in (DOMAIN d) \cup (DOMAIN e) |-> IF k \in DOMAIN e THEN e[k] ELSE d[k]]

\* lines 522-531: what the for-loop does after a scan: "break" or "next"
AfterScan_ignore(interrupted, matched) == IF matched THEN "break" ELSE "next"

AfterScan(interrupted, matched) ==
    IF interrupted THEN "break" ELSE IF matched THEN "break" ELSE "next"

\* lines 452, 461, 95, 129, 509: the status of sys.exit after a setup failure
SetupExit_zero(cause) == 0

SetupExit(cause) == 1

\* line 542: scan_local_folder(local_path, verbose=False)
LocalVerbose == FALSE

\* lines 145-147: the warning of scan_local_folder for a missing folder
LocalWarning(verbose, exists) == verbose /\ ~exists

\* the local folders on disk and their enumerations
LocalDisk ==
    [p \in {"/l1"} |->
        <<[name |-> "b.jpg", dir |-> "d1", size |-> 1, mtime |-> 100, is_file |-> TRUE]>>]

\* lines 145-157: the dict scan_local_folder returns for path p
LocalScan(p) == IF p \in DOMAIN LocalDisk THEN scan_local_folder(LocalDisk[p], <<>>) ELSE <<>>

RECURSIVE LocalLoop(_, _, _)
\* lines 540-543: the for-loop over local_paths; st = [files, lines, printed]
LocalLoop(paths, i, st) ==
    IF i > Len(paths) THEN st
    ELSE LET p == paths[i]
             w == IF LocalWarning(LocalVerbose, p \in DOMAIN LocalDisk)
                  THEN <<"warn_local_missing">> ELSE <<>>
         IN  LocalLoop(paths, i + 1,
                       [files   |-> DictUpdate(st.files, LocalScan(p)),
                        lines   |-> Append(st.lines, "local_path"),
                        printed |-> Append(st.printed, "local_path") \o w])

MainRoots ==
    {<<>>, << <<1, 2>> >>, << <<1, 2>>, <<1, 3>> >>, << <<1, 3>>, <<1, 2>> >>,
     << <<1, 1>>, <<1, 2>>, <<1, 3>> >>}

MainLocalPaths == {<<>>, <<"/l1">>, <<"/gone", "/l1">>}

MainCards ==
    LET e(n) == [name |-> n, dir |-> "d1", size |-> 1, mtime |-> 100, is_file |-> TRUE]
    IN  {<<>>, <<e("a.jpg")>>, <<e("a.jpg"), e("b.jpg")>>}

\* the remote trees of a run: no file directly in the share root
MainPlacements == {l \in Placements : l[1] # ROOT}

InitMain ==
    /\ LocIdle /\ CopyIdle /\ GroupIdle /\ PromptIdle
    /\ sd_files = <<>> /\ nas_files = <<>> /\ local_files = <<>>
    /\ todo = {} /\ backed_up_nas = <<>> /\ backed_up_local = <<>>
    /\ missing = <<>> /\ cpc = "idle"
    /\ time_tolerance = DefaultTolerance
    /\ \E l \in MainPlacements : tree = [f \in Folders |-> EntriesOf(f, l, FALSE)]
    /\ target_files = <<>>
    /\ files = <<>>
    /\ folders_to_scan = <<>>
    /\ scanned_count = 0
    /\ remaining = {}
    /\ folder = <<>>
    /\ offset = 0
    /\ subdirs = <<>>
    /\ items = <<>>
    /\ idx = 0
    /\ pc = "idle"
    /\ result = "none"
    /\ was_interrupted = FALSE
    /\ fetches = <<>>
    /\ visited = <<>>
    /\ processed = <<>>
    /\ early_exit = FALSE
    /\ intr_at = "none"
    /\ nas_paths \in MainRoots
    /\ local_paths \in MainLocalPaths
    /\ card \in MainCards
    /\ args_output \in BOOLEAN
    /\ nas_idx = 0
    /\ scan_interrupted = FALSE
    /\ output_lines = <<>>
    /\ printed = <<>>
    /\ exit_status = -1
    /\ report_written = FALSE
    /\ mpc = "start"
    /\ setup_failure = "none"
    /\ mscans = <<>>

MainFrame == UNCHANGED <<locVars, copyVars, groupVars, promptVars>>

\* print(tag); sys.exit(status)
Exit(tag, status, cause) ==
    /\ printed' = (IF tag = "" THEN printed ELSE Append(printed, tag))
    /\ exit_status' = status
    /\ setup_failure' = cause
    /\ mpc' = "exit"

\* log(tags)
Log(tags) ==
    /\ output_lines' = output_lines \o tags
    /\ printed' = printed \o tags

\* lines 443-461: credentials and remote roots
MainSetup ==
    /\ mpc = "start"
    /\ \E creds \in BOOLEAN :
          IF ~creds
          THEN Exit("cred_error", SetupExit("credentials"), "credentials")
          ELSE IF nas_paths = <<>>
          THEN Exit("nas_error", SetupExit("no_nas_folders"), "no_nas_folders")
          ELSE /\ mpc' = "volume"
               /\ UNCHANGED <<printed, exit_status, setup_failure>>
    /\ UNCHANGED <<nas_paths, local_paths, card, args_output, nas_idx, scan_interrupted,
                   output_lines, report_written, mscans>>
    /\ UNCHANGED <<cmpVars, scanVars>>
    /\ MainFrame

\* lines 470-472, 90-113: the card path from the arguments or the picker
MainVolume ==
    /\ mpc = "volume"
    /\ \E how \in {"arg", "picked", "no_volumes", "cancelled"} :
          IF how = "no_volumes"
          THEN Exit("no_volumes", SetupExit("no_volume"), "no_volume")
          ELSE IF how = "cancelled"
          THEN Exit("cancelled", 0, "none")
          ELSE /\ mpc' = "sd"
               /\ UNCHANGED <<printed, exit_status, setup_failure>>
    /\ UNCHANGED <<nas_paths, local_paths, card, args_output, nas_idx, scan_interrupted,
                   output_lines, report_written, mscans>>
    /\ UNCHANGED <<cmpVars, scanVars>>
    /\ MainFrame

\* lines 481-487, 127-129: scan_sd_card and the empty card
MainScanCard ==
    /\ mpc = "sd"
    /\ \E exists \in BOOLEAN :
          IF ~exists
          THEN /\ output_lines' = Append(output_lines, "scan_sd")
               /\ printed' = printed \o <<"scan_sd", "sd_error">>
               /\ exit_status' = SetupExit("sd_path")
               /\ setup_failure' = "sd_path"
               /\ mpc' = "exit"
               /\ UNCHANGED sd_files
          ELSE LET sd == scan_sd_card(card, <<>>) IN
               /\ sd_files' = sd
               /\ IF sd = <<>>
                  THEN /\ Log(<<"scan_sd", "found_sd", "no_media">>)
                       /\ exit_status' = 0
                       /\ mpc' = "exit"
                  ELSE /\ Log(<<"scan_sd", "found_sd">>)
                       /\ mpc' = "connect"
                       /\ UNCHANGED exit_status
               /\ UNCHANGED setup_failure
    /\ UNCHANGED <<nas_paths, local_paths, card, args_output, nas_idx, scan_interrupted,
                   report_written, mscans>>
    /\ UNCHANGED <<nas_files, local_files, time_tolerance, todo, backed_up_nas,
                   backed_up_local, missing, cpc>>
    /\ UNCHANGED scanVars
    /\ MainFrame

\* lines 497-515: the connection
MainConnect ==
    /\ mpc = "connect"
    /\ \E ok \in BOOLEAN :
          IF ~ok
          THEN /\ output_lines' = Append(output_lines, "connecting")
               /\ printed' = printed \o <<"connecting", "connect_error">>
               /\ exit_status' = SetupExit("connection")
               /\ setup_failure' = "connection"
               /\ mpc' = "exit"
               /\ UNCHANGED <<nas_idx, nas_files, scan_interrupted>>
          ELSE /\ Log(<<"connecting">>)
               /\ nas_files' = <<>>
               /\ scan_interrupted' = FALSE
               /\ nas_idx' = 1
               /\ mpc' = "nas_loop"
               /\ UNCHANGED <<exit_status, setup_failure>>
    /\ UNCHANGED <<nas_paths, local_paths, card, args_output, report_written, mscans>>
    /\ UNCHANGED <<sd_files, local_files, time_tolerance, todo, backed_up_nas,
                   backed_up_local, missing, cpc>>
    /\ UNCHANGED scanVars
    /\ MainFrame

\* lines 516-520: the next root, the call of scan_nas_folder (lines 167-177)
MainStartScan ==
    /\ mpc = "nas_loop"
    /\ nas_idx <= Len(nas_paths)
    /\ Log(<<"scanning_root">>)
    /\ LET tf == RemainingMtimes(SdFileMtimes(sd_files), nas_files) IN
          /\ target_files' = tf
          /\ remaining' = InitialRemaining(tf)
    /\ folders_to_scan' = <<nas_paths[nas_idx]>>
    /\ files' = <<>>
    /\ scanned_count' = 0
    /\ folder' = <<>>
    /\ offset' = 0
    /\ subdirs' = <<>>
    /\ items' = <<>>
    /\ idx' = 0
    /\ pc' = "loop"
    /\ result' = "none"
    /\ was_interrupted' = FALSE
    /\ fetches' = <<>>
    /\ visited' = <<>>
    /\ processed' = <<>>
    /\ early_exit' = FALSE
    /\ intr_at' = "none"
    /\ mpc' = "scanning"
    /\ UNCHANGED <<tree, nas_paths, local_paths, card, args_output, nas_idx,
                   scan_interrupted, exit_status, report_written, setup_failure, mscans>>
    /\ UNCHANGED cmpVars
    /\ MainFrame

\* lines 520-531: the scan has returned; merge, then break or go on
MainMerge ==
    /\ mpc = "scanning"
    /\ pc = "done"
    /\ result = "returned"
    /\ LET nas == DictUpdate(nas_files, files)
           a   == AfterScan(was_interrupted, all_matched(SdFileMtimes(sd_files), nas))
       IN  /\ nas_files' = nas
           /\ scan_interrupted' = (scan_interrupted \/ was_interrupted)
           /\ IF a = "break"
              THEN mpc' = "nas_done" /\ UNCHANGED nas_idx
              ELSE mpc' = "nas_loop" /\ nas_idx' = nas_idx + 1
    /\ mscans' = Append(mscans, [root |-> nas_paths[nas_idx], targets |-> target_files,
                                 interrupted |-> was_interrupted, found |-> files,
                                 failed |-> (Failures > 0)])
    /\ target_files' = <<>>
    /\ remaining' = {}
    /\ folders_to_scan' = <<>>
    /\ files' = <<>>
    /\ scanned_count' = 0
    /\ folder' = <<>>
    /\ offset' = 0
    /\ subdirs' = <<>>
    /\ items' = <<>>
    /\ idx' = 0
    /\ pc' = "idle"
    /\ result' = "none"
    /\ was_interrupted' = FALSE
    /\ fetches' = <<>>
    /\ visited' = <<>>
    /\ processed' = <<>>
    /\ early_exit' = FALSE
    /\ intr_at' = "none"
    /\ UNCHANGED <<tree, nas_paths, local_paths, card, args_output, output_lines, printed,
                   exit_status, report_written, setup_failure>>
    /\ UNCHANGED <<sd_files, local_files, time_tolerance, todo, backed_up_nas,
                   backed_up_local, missing, cpc>>
    /\ MainFrame

\* lines 532-534: after the for-loop over the roots
MainNasDone ==
    /\ \/ mpc = "nas_done"
       \/ mpc = "nas_loop" /\ nas_idx > Len(nas_paths)
    /\ Log((IF scan_interrupted THEN <<"warn_incomplete">> ELSE <<>>) \o <<"found_nas">>)
    /\ mpc' = "local"
    /\ UNCHANGED <<nas_paths, local_paths, card, args_output, nas_idx, scan_interrupted,
                   exit_status, report_written, setup_failure, mscans>>
    /\ UNCHANGED <<cmpVars, scanVars>>
    /\ MainFrame

\* lines 537-544: the local folders
MainLocal ==
    /\ mpc = "local"
    /\ IF local_paths # <<>>
       THEN LET r == LocalLoop(local_paths, 1,
                               [files |-> <<>>, lines |-> <<"scanning_local">>,
                                printed |-> <<"scanning_local">>])
            IN  /\ local_files' = r.files
                /\ output_lines' = output_lines \o r.lines \o <<"found_local">>
                /\ printed' = printed \o r.printed \o <<"found_local">>
       ELSE /\ local_files' = <<>>
            /\ UNCHANGED <<output_lines, printed>>
    /\ mpc' = "compare"
    /\ UNCHANGED <<nas_paths, local_paths, card, args_output, nas_idx, scan_interrupted,
                   exit_status, report_written, setup_failure, mscans>>
    /\ UNCHANGED <<sd_files, nas_files, time_tolerance, todo, backed_up_nas,
                   backed_up_local, missing, cpc>>
    /\ UNCHANGED scanVars
    /\ MainFrame

\* lines 547-548, 403-406: the call of compare_files
MainCompare ==
    /\ mpc = "compare"
    /\ Log(<<"comparing">>)
    /\ todo' = DOMAIN sd_files
    /\ backed_up_nas' = <<>>
    /\ backed_up_local' = <<>>
    /\ missing' = <<>>
    /\ cpc' = "loop"
    /\ mpc' = "comparing"
    /\ UNCHANGED <<nas_paths, local_paths, card, args_output, nas_idx, scan_interrupted,
                   exit_status, report_written, setup_failure, mscans>>
    /\ UNCHANGED <<sd_files, nas_files, local_files, time_tolerance>>
    /\ UNCHANGED scanVars
    /\ MainFrame

\* lines 550-621: the report (the dialogue of lines 585-603 is SpecPrompt)
MainReport ==
    /\ mpc = "comparing"
    /\ cpc = "returned"
    /\ output_lines' = output_lines \o <<"backed_up">>
                         \o (IF missing # <<>> THEN <<"missing">> ELSE <<"all_backed_up">>)
    /\ printed' = printed \o <<"backed_up">>
                    \o (IF missing # <<>> THEN <<"missing">> ELSE <<"all_backed_up">>)
                    \o (IF args_output THEN <<"report_written">> ELSE <<>>)
    /\ report_written' = args_output
    /\ exit_status' = 0
    /\ mpc' = "exit"
    /\ UNCHANGED <<nas_paths, local_paths, card, args_output, nas_idx, scan_interrupted,
                   setup_failure, mscans>>
    /\ UNCHANGED <<cmpVars, scanVars>>
    /\ MainFrame

NextMain ==
    \/ MainSetup
    \/ MainVolume
    \/ MainScanCard
    \/ MainConnect
    \/ MainStartScan
    \/ PopFolder
    \/ ScanFinished
    \/ FetchPage
    \/ FetchNoData
    \/ FetchError
    \/ FetchInterrupted
    \/ Item
    \/ EarlyExit
    \/ PushSubdirs
    \/ Interrupt
    \/ MainMerge
    \/ MainNasDone
    \/ MainLocal
    \/ MainCompare
    \/ CompareStep
    \/ CompareReturn
    \/ MainReport

SpecMain == InitMain /\ [][NextMain]_vars

----------------------------------------------------------------------------
(* Properties of compare_files                                             *)

Strip(e) == [name |-> e.name, size |-> e.size, mtime |-> e.mtime, path |-> e.path]

\* number of entries of a result list that carry source record r
Occ(list, r) == Cardinality({i \in 1..Len(list) : Strip(list[i]) = r})

Without(d, k) == [x \in (DOMAIN d) \ {k} |-> d[x]]

\* the list (1 = NAS, 2 = local, 3 = missing) and provenance compare_files
\* gives to key k when run on (sd, nas, local)
ClassOf(k, sd, nas, local, tol) ==
    LET out == CompareBody(k, sd, nas, local, tol, <<(<<>>), (<<>>), (<<>>)>>)
    IN  <<Len(out[1]), Len(out[2]), Len(out[3]),
          IF Len(out[2]) = 1 THEN out[2][1].folder ELSE "-">>

Diff(k, d) == Abs(sd_files[k].mtime - d[k].mtime)

\* C1: on return every source record sits in exactly one of the three
\* lists, exactly once, and the lists hold nothing but source records.
C1_Partition ==
    cpc = "returned" =>
        /\ \A k \in DOMAIN sd_files :
              Occ(backed_up_nas, sd_files[k]) + Occ(backed_up_local, sd_files[k])
                + Occ(missing, sd_files[k]) = 1
        /\ Len(backed_up_nas) + Len(backed_up_local) + Len(missing)
              = Cardinality(DOMAIN sd_files)

C1_Witness ==
    /\ cpc = "returned"
    /\ Len(backed_up_nas) = 1
    /\ Len(backed_up_local) = 1
    /\ \E k \in DOMAIN sd_files : k \in DOMAIN nas_files /\ k \in DOMAIN local_files
                                   /\ Diff(k, nas_files) <= time_tolerance
                                   /\ Diff(k, local_files) <= time_tolerance

\* C2: a same-key candidate matches iff |T - T'| <= tolerance (NAS index,
\* and local index when the NAS did not match), and a key held outside
\* tolerance is classified as if the index did not hold the key.
C2_ToleranceIff ==
    cpc = "returned" =>
        \A k \in DOMAIN sd_files :
            LET r == sd_files[k] IN
            /\ k \in DOMAIN nas_files =>
                  (Occ(backed_up_nas, r) = 1 <=> Diff(k, nas_files) <= time_tolerance)
            /\ k \notin DOMAIN nas_files => Occ(backed_up_nas, r) = 0
            /\ (k \in DOMAIN local_files /\ Occ(backed_up_nas, r) = 0) =>
                  (Occ(backed_up_local, r) = 1 <=> Diff(k, local_files) <= time_tolerance)
            /\ k \notin DOMAIN local_files => Occ(backed_up_local, r) = 0
            /\ (k \in DOMAIN nas_files /\ Diff(k, nas_files) > time_tolerance) =>
                  <<Occ(backed_up_nas, r), Occ(backed_up_local, r), Occ(missing, r)>>
                    = SubSeq(ClassOf(k, sd_files, Without(nas_files, k), local_files,
                                     time_tolerance), 1, 3)
            /\ (k \in DOMAIN local_files /\ Diff(k, local_files) > time_tolerance) =>
                  <<Occ(backed_up_nas, r), Occ(backed_up_local, r), Occ(missing, r)>>
                    = SubSeq(ClassOf(k, sd_files, nas_files, Without(local_files, k),
                                     time_tolerance), 1, 3)

C2_Witness ==
    /\ cpc = "returned"
    /\ time_tolerance = 10
    /\ \E k \in DOMAIN sd_files :
          /\ k \in DOMAIN nas_files /\ Diff(k, nas_files) = time_tolerance
          /\ Occ(backed_up_nas, sd_files[k]) = 1
    /\ \E k \in DOMAIN sd_files :
          /\ k \in DOMAIN nas_files /\ Diff(k, nas_files) = time_tolerance + 1
          /\ Occ(missing, sd_files[k]) = 1

\* C3: the NAS index has precedence: a record matching in both indexes is
\* backed-up-NAS with the NAS folder; the local index decides only when the
\* NAS index has no within-tolerance record for the key.
C3_NasBeforeLocal ==
    cpc = "returned" =>
        \A k \in DOMAIN sd_files :
            LET r      == sd_files[k]
                nasOk  == k \in DOMAIN nas_files /\ Diff(k, nas_files) <= time_tolerance
                locOk  == k \in DOMAIN local_files /\ Diff(k, local_files) <= time_tolerance
            IN
            /\ nasOk => /\ \E i \in 1..Len(backed_up_nas) :
                              backed_up_nas[i] = WithFolder(r, nas_files[k].folder)
                        /\ Occ(backed_up_local, r) = 0
            /\ Occ(backed_up_local, r) > 0 => ~nasOk
            /\ (~nasOk /\ locOk) =>
                  \E i \in 1..Len(backed_up_local) :
                      backed_up_local[i] = WithFolder(r, local_files[k].folder)

C3_Witness ==
    /\ cpc = "returned"
    /\ \E k \in DOMAIN sd_files :
          /\ k \in DOMAIN nas_files /\ k \in DOMAIN local_files
          /\ Diff(k, nas_files) <= time_tolerance
          /\ Diff(k, local_files) <= time_tolerance
          /\ Occ(backed_up_nas, sd_files[k]) = 1
    /\ \E k \in DOMAIN sd_files :
          /\ k \in DOMAIN nas_files /\ k \in DOMAIN local_files
          /\ Diff(k, nas_files) > time_tolerance
          /\ Diff(k, local_files) <= time_tolerance
          /\ Occ(backed_up_local, sd_files[k]) = 1

----------------------------------------------------------------------------
(* Properties of scan_nas_folder                                           *)

FetchesOf(f) == SelectSeq(fetches, LAMBDA r : r.folder = f)

Listed(f) == \E i \in 1..Len(fetches) : fetches[i].folder = f

FailedFetch(i) == fetches[i].outcome = "error"

\* C4: with targets given, once a folder is drained and remaining is empty
\* the scan returns (files, False) at once: nothing is pushed, popped or
\* listed, whatever is left on the work-stack.  (A Ctrl+C delivered at that
\* very point is the interrupt path and returns True.)
C4_EarlyExit ==
    [][(pc = "check" /\ Truthy(target_files) /\ remaining = {}) =>
          /\ pc' = "done"
          /\ result' = "returned"
          /\ folders_to_scan' = folders_to_scan
          /\ visited' = visited
          /\ fetches' = fetches
          /\ files' = files
          /\ (intr_at' = "none" => (was_interrupted' = FALSE /\ early_exit'))]_vars

C4_Witness ==
    /\ pc = "done"
    /\ early_exit
    /\ result = "returned"
    /\ ~was_interrupted
    /\ Truthy(target_files)
    /\ subdirs # <<>>
    /\ folders_to_scan # <<>>

\* C5: a KeyboardInterrupt delivered anywhere in the scan ends it: the scan
\* returns (files, True) with the index as it was, no folder is popped and no
\* listing is issued afterwards, the per-folder handler does not absorb it
\* and it does not leave the function as an exception.
C5_Interrupt ==
    [][/\ pc # "done"
       /\ intr_at' # intr_at =>
            /\ pc' = "done"
            /\ result' = "returned"
            /\ was_interrupted' = TRUE
            /\ files' = files
            /\ visited' = visited
            /\ folders_to_scan' = folders_to_scan
            /\ \/ fetches' = fetches
               \/ /\ intr_at' = "call"
                  /\ fetches' = Append(fetches, FetchRec("interrupt", 0))]_vars

C5_Witness ==
    /\ pc = "done"
    /\ intr_at = "items"
    /\ idx > 1
    /\ result = "returned"
    /\ was_interrupted
    /\ DOMAIN files # {}
    /\ folders_to_scan # <<>>

Folder1 == <<1, 1>>
Folder2 == <<1, 2>>
Folder3 == <<1, 3>>

\* every target key has a within-tolerance file in folder 2
TargetsInFolder2 ==
    /\ pc # "idle"
    /\ Truthy(target_files)
    /\ \A k \in DOMAIN target_files :
          \E i \in 1..Len(tree[Folder2]) :
              /\ ~tree[Folder2][i].isdir
              /\ lower(tree[Folder2][i].name) = k
              /\ Abs(tree[Folder2][i].mtime - target_files[k]) <= time_tolerance

\* C6 as stated: with the targets all in folder 2, folder 3 is never listed.
C6_Folder3NeverListed ==
    TargetsInFolder2 => ~Listed(Folder3)

\* C6 amended: the stack pops the highest name first, so it is folder 1
\* that is never popped or listed, as long as no listing of folder 2 fails;
\* folder 3 is listed before folder 2 when no listing fails at all.
C6_Folder1NeverListed ==
    TargetsInFolder2 =>
       /\ (\A i \in 1..Len(fetches) :
              fetches[i].folder = Folder2 => fetches[i].outcome \notin {"error", "nodata"})
          => /\ ~Listed(Folder1)
             /\ \A i \in 1..Len(visited) : visited[i] # Folder1
       /\ Failures = 0
          => \A i \in 1..Len(fetches) :
                 fetches[i].folder = Folder2 =>
                     \E j \in 1..(i - 1) : fetches[j].folder = Folder3

C6_Witness ==
    /\ TargetsInFolder2
    /\ pc = "done"
    /\ early_exit
    /\ folder = Folder2
    /\ Listed(Folder3)
    /\ ~Listed(Folder1)
    /\ folders_to_scan = <<Folder1>>

\* C7 as stated: sibling folders are visited in ascending name order.
C7_SiblingsAscending ==
    \A i, j \in 1..Len(visited) :
        (i < j /\ Siblings(visited[i], visited[j])) => PathLess(visited[i], visited[j])

\* C7 amended: sibling folders are visited in descending name order (they
\* are pushed ascending and popped from the end of the list).
C7_SiblingsDescending ==
    \A i, j \in 1..Len(visited) :
        (i < j /\ Siblings(visited[i], visited[j])) => PathLess(visited[j], visited[i])

C7_Witness ==
    /\ pc = "done"
    /\ visited = <<ROOT, Folder3, <<1, 3, 2>>, <<1, 3, 1>>, Folder2, Folder1>>
    /\ \E i \in 1..Len(tree[ROOT]) : tree[ROOT][i].isdir /\ tree[ROOT][i].path = Folder3
                                      /\ i < Len(tree[ROOT])
                                      /\ tree[ROOT][i + 1].path = Folder2

IsPrefix(s, t) == Len(s) <= Len(t) /\ s = SubSeq(t, 1, Len(s))

\* C8: the fetches of a folder are at offsets 0, P, 2P, ...; a further page
\* is fetched only after a full page; a drained folder of n entries took
\* n div P + 1 fetches, the last one shorter than P (empty when n = k*P), and
\* its entries were processed once each, in order.
C8_Pagination ==
    /\ \A f \in Folders :
          LET fs == FetchesOf(f) IN
          /\ \A i \in 1..Len(fs) : fs[i].offset = (i - 1) * limit
          /\ \A i \in 1..(Len(fs) - 1) : fs[i].outcome = "page" /\ fs[i].n = limit
    /\ pc \in {"fetch", "items", "check"} => IsPrefix(processed, tree[folder])
    /\ (/\ pc = "check"
        /\ \A i \in 1..Len(fetches) :
              fetches[i].folder = folder => fetches[i].outcome = "page")
       => LET fs == FetchesOf(folder)
              n  == Len(tree[folder])
          IN  /\ processed = tree[folder]
              /\ Len(fs) = (n \div limit) + 1
              /\ fs[Len(fs)].n = n % limit

C8_Witness ==
    /\ pc = "check"
    /\ Len(tree[folder]) = 2 * limit
    /\ processed = tree[folder]
    /\ Len(FetchesOf(folder)) = 3
    /\ FetchesOf(folder)[3] = [folder |-> folder, offset |-> 2 * limit,
                               outcome |-> "page", n |-> 0]

\* C9: an exception of the listing call does not end the scan: the failed
\* folder gets no further fetch, the index, the remaining set and the
\* work-stack are as before and the loop goes on; a run that ends without
\* early exit or interrupt has emptied the stack and listed every folder it
\* popped; was_interrupted is true only after an interrupt.
C9_FailureNonFatal ==
    /\ [][(\E r \in {FetchRec("error", 0)} : fetches' = Append(fetches, r)) =>
             /\ pc' = "loop"
             /\ result' = "none"
             /\ was_interrupted' = FALSE
             /\ files' = files
             /\ remaining' = remaining
             /\ folders_to_scan' = folders_to_scan]_vars
    /\ [](/\ result # "raised"
          /\ was_interrupted => intr_at # "none"
          /\ \A i, j \in 1..Len(fetches) :
                (FailedFetch(i) /\ i < j) => fetches[j].folder # fetches[i].folder
          /\ (pc = "done" /\ ~early_exit /\ intr_at = "none") =>
                /\ folders_to_scan = <<>>
                /\ result = "returned"
                /\ ~was_interrupted
                /\ \A i \in 1..Len(visited) : Listed(visited[i]))

C9_Witness ==
    /\ pc = "done"
    /\ result = "returned"
    /\ ~was_interrupted
    /\ ~early_exit
    /\ \E i \in 1..Len(fetches) :
          /\ FailedFetch(i)
          /\ fetches[i].offset > 0
          /\ \E k \in DOMAIN files : files[k].folder = fetches[i].folder
          /\ \E j \in (i + 1)..Len(fetches) : fetches[j].outcome = "page" /\ fetches[j].n > 0

\* C10 as stated: the index holds no record located in a folder whose
\* listing failed, nor in any folder below it.
C10_FailedSubtreeEmpty ==
    \A i \in 1..Len(fetches) :
        FailedFetch(i) =>
            \A k \in DOMAIN files :
                /\ files[k].folder # fetches[i].folder
                /\ ~IsBelow(files[k].folder, fetches[i].folder)

\* C10 amended: nothing below a failed folder is pushed, listed or recorded,
\* and the failed folder contributes only entries of the pages fetched
\* before the failing one (nothing when its first page fails).
C10_FailedSubtreeBelowEmpty ==
    \A i \in 1..Len(fetches) :
        FailedFetch(i) =>
            LET f == fetches[i].folder IN
            /\ \A j \in 1..Len(fetches) : ~IsBelow(fetches[j].folder, f)
            /\ \A j \in 1..Len(visited) : ~IsBelow(visited[j], f)
            /\ \A j \in 1..Len(folders_to_scan) : ~IsBelow(folders_to_scan[j], f)
            /\ \A k \in DOMAIN files :
                  /\ ~IsBelow(files[k].folder, f)
                  /\ files[k].folder = f =>
                        \E e \in 1..fetches[i].offset :
                            /\ ~tree[f][e].isdir
                            /\ lower(tree[f][e].name) = k
                            /\ tree[f][e].mtime = files[k].mtime
            /\ \A k \in (DOMAIN target_files) \ remaining :
                  k \in DOMAIN files /\ ~IsBelow(files[k].folder, f)

C10_Witness ==
    /\ pc = "done"
    /\ \E i \in 1..Len(fetches) :
          /\ FailedFetch(i)
          /\ fetches[i].offset = limit
          /\ \E e \in 1..limit : tree[fetches[i].folder][e].isdir
          /\ \E k \in DOMAIN files : /\ files[k].folder = fetches[i].folder
                                     /\ k \in (DOMAIN target_files) \ remaining

----------------------------------------------------------------------------
(* Properties of scan_sd_card and scan_local_folder                        *)

\* index in the enumeration of the first media file that folds to key k
FirstOf(k) ==
    CHOOSE i \in 1..Len(walk) :
        /\ walk[i].is_file /\ is_media_file(walk[i].name) /\ lower(walk[i].name) = k
        /\ \A j \in 1..(i - 1) :
              ~(walk[j].is_file /\ is_media_file(walk[j].name) /\ lower(walk[j].name) = k)

RecDir(r) == IF variant = "sd" THEN r.path[1] ELSE r.folder

\* C13: in both local scan variants the index keeps, for every key, the
\* record of the first enumerated media file that folds to the key.
C13_FirstWins ==
    lpc = "returned" =>
        \A k \in DOMAIN lfiles :
            /\ lfiles[k].mtime = walk[FirstOf(k)].mtime
            /\ RecDir(lfiles[k]) = walk[FirstOf(k)].dir

----------------------------------------------------------------------------
(* Properties of copy_files_to_folder                                      *)

\* C16: a source file whose name is already in the destination folder is
\* counted as skipped and the folder is left as it is; any other file is
\* copied to the folder under its name and counted as copied; no file of the
\* folder is ever removed or changed; on return copied + skipped is the
\* number of files given.
C16_CopyAdditive ==
    /\ [][(kpc = "loop" /\ cpos' = cpos + 1) =>
             LET src == cfiles[cpos]
                 d   == destfs[dest_folder]
             IN  IF SrcName(src) \in DOMAIN d
                 THEN /\ destfs' = destfs
                      /\ skipped' = skipped + 1
                      /\ copied' = copied
                 ELSE /\ DOMAIN destfs' = DOMAIN destfs
                      /\ DOMAIN destfs'[dest_folder] = (DOMAIN d) \cup {SrcName(src)}
                      /\ destfs'[dest_folder][SrcName(src)] = src
                      /\ \A n \in DOMAIN d : destfs'[dest_folder][n] = d[n]
                      /\ copied' = copied + 1
                      /\ skipped' = skipped]_vars
    /\ [][\A f \in DOMAIN destfs :
             /\ f \in DOMAIN destfs'
             /\ \A n \in DOMAIN destfs[f] :
                   n \in DOMAIN destfs'[f] /\ destfs'[f][n] = destfs[f][n]]_vars
    /\ [](kpc = "loop" => copied + skipped = cpos - 1)
    /\ [](kpc = "returned" => copied + skipped = Len(cfiles))

C16_Witness ==
    /\ kpc = "returned"
    /\ copied = 1
    /\ skipped = 2
    /\ destfs[dest_folder]["a.jpg"] = <<"old", "a.jpg">>
    /\ destfs[dest_folder]["b.jpg"] = <<"sd", "b.jpg">>

----------------------------------------------------------------------------
(* Properties of the grouping by date                                      *)

\* number of the local calendar day a timestamp falls on
LocalDay(t) == (t + utc_offset) \div SecondsPerDay

InGroup(k, r) == \E i \in 1..Len(by_date[k]) : by_date[k][i] = r

RECURSIVE SumLen(_, _)
SumLen(bd, K) ==
    IF K = {} THEN 0
    ELSE LET k == CHOOSE x \in K : TRUE IN Len(bd[k]) + SumLen(bd, K \ {k})

\* C17: the groups partition the missing records by the local calendar day
\* of the modification time: every record is in exactly one group, two
\* records are in the same group iff their timestamps fall on the same day.
C17_GroupByDay ==
    gpc = "done" =>
        /\ \A i \in 1..Len(missing) :
              Cardinality({k \in DOMAIN by_date : InGroup(k, missing[i])}) = 1
        /\ SumLen(by_date, DOMAIN by_date) = Len(missing)
        /\ \A i, j \in 1..Len(missing) :
              (\E k \in DOMAIN by_date : InGroup(k, missing[i]) /\ InGroup(k, missing[j]))
                <=> LocalDay(missing[i].mtime) = LocalDay(missing[j].mtime)

C17_Witness ==
    /\ gpc = "done"
    /\ utc_offset = 0
    /\ Len(missing) = 3
    /\ {missing[i].mtime : i \in 1..3} = {3600, 82800, 86400}
    /\ Cardinality(DOMAIN by_date) = 2
    /\ Len(by_date[<<1970, 1, 1>>]) = 2
    /\ Len(by_date[<<1970, 1, 2>>]) = 1

----------------------------------------------------------------------------
(* Properties of prompt_copy_missing                                       *)

SeqSet(q) == {q[i] : i \in 1..Len(q)}

NoDup(q) == \A i, j \in 1..Len(q) : i # j => q[i] # q[j]

\* an answer that is neither quit nor a number of the list of n dates
BadAnswer(c, n) == c \in Choices \ ({"q", "Q"} \cup {x \in {"1", "2", "3", "4"} : IntOf(x) <= n})

\* C19: no date is copied twice; the remaining list holds exactly the dates
\* whose copy pass has not run; an invalid answer changes neither the list
\* nor the destination and asks again; the loop is left only when no date
\* remains, on quit or on Ctrl+C, and is left at once when no date remains.
C19_CopyLoop ==
    /\ [](NoDup(passes) /\ NoDup(remaining_dates))
    /\ [](remaining_dates # <<>> \/ passes # <<>> =>
             /\ SeqSet(remaining_dates) = (DOMAIN by_date) \ SeqSet(passes)
             /\ SeqSet(passes) \subseteq DOMAIN by_date)
    /\ [][(ppc = "loop" /\ BadAnswer(last_choice', Len(remaining_dates))) =>
             /\ ppc' = "loop"
             /\ remaining_dates' = remaining_dates
             /\ destfs' = destfs
             /\ passes' = passes]_vars
    /\ [][(ppc = "loop" /\ ppc' # "loop") =>
             /\ ppc' = "done"
             /\ remaining_dates' = remaining_dates
             /\ \/ remaining_dates = <<>>
                \/ last_choice' \in {"q", "Q"}
                \/ cancelled']_vars
    /\ [][(ppc = "loop" /\ (remaining_dates = <<>> \/ last_choice' \in {"q", "Q"})) =>
             ppc' = "done"]_vars

C19_Witness ==
    /\ ppc = "done"
    /\ ~cancelled
    /\ finder_opened
    /\ remaining_dates = <<>>
    /\ passes = << <<1970, 1, 2>>, <<1970, 2, 1>>, <<1970, 1, 1>> >>

----------------------------------------------------------------------------
(* Properties of the target handling in scan_nas_folder                    *)

\* the record r of key k is within tolerance of the target of k
Matched(k, mtime) ==
    (mtime - target_files[k] <= time_tolerance) /\ (target_files[k] - mtime <= time_tolerance)

\* C18: a stored record is replaced only for a target key whose stored
\* record is outside tolerance, by an entry within tolerance, and the key
\* then leaves the remaining set; such an entry, once the loop body has run
\* for it, always replaces; a record within tolerance and the record of a
\* key outside the targets are never replaced.
C18_TargetReplacement ==
    /\ [][\A k \in DOMAIN files :
             /\ k \in DOMAIN files'
             /\ files'[k] # files[k] =>
                   /\ k \in DOMAIN target_files
                   /\ ~Matched(k, files[k].mtime)
                   /\ Matched(k, files'[k].mtime)
                   /\ k \in remaining
                   /\ k \notin remaining']_vars
    /\ [][(pc = "items" /\ ~items[idx].isdir /\ processed' # processed) =>
             LET k == lower(items[idx].name) IN
             (/\ k \in DOMAIN target_files
              /\ k \in DOMAIN files
              /\ ~Matched(k, files[k].mtime)
              /\ Matched(k, items[idx].mtime)) =>
                /\ files'[k] = [size |-> items[idx].size, mtime |-> items[idx].mtime,
                                folder |-> folder]
                /\ k \notin remaining']_vars

\* an entry outside tolerance was recorded, an entry of the same folder
\* within tolerance has replaced it, and a key outside the targets was seen
C18_Witness ==
    /\ "a.jpg" \in DOMAIN target_files
    /\ "a.jpg" \in DOMAIN files
    /\ files["a.jpg"].mtime = 100
    /\ "a.jpg" \notin remaining
    /\ \E i, j \in 1..Len(processed) :
          /\ i < j
          /\ processed[i].name = "A.JPG" /\ processed[i].mtime = 111
          /\ processed[j].name = "a.jpg" /\ processed[j].mtime = 100

----------------------------------------------------------------------------
(* Properties of main                                                      *)

\* key k of the card has a record within the tolerance in the index nas
Confirmed(k, nas) ==
    /\ k \in DOMAIN nas
    /\ nas[k].mtime - sd_files[k].mtime <= MainTolerance
    /\ sd_files[k].mtime - nas[k].mtime <= MainTolerance

\* position of the first occurrence of tag in the sequence q, 0 if none
Pos(tag, q) ==
    IF \E i \in 1..Len(q) : q[i] = tag
    THEN CHOOSE i \in 1..Len(q) : q[i] = tag /\ \A j \in 1..(i - 1) : q[j] # tag
    ELSE 0

\* C11: the i-th scan of a run is of the i-th configured root; a scan starts
\* only while some key of the card is not confirmed in the merged index, and
\* its targets are exactly the keys not confirmed there, with the mtimes of
\* the card.
C11_RootsInOrderNarrowed ==
    /\ [][(mpc = "nas_loop" /\ mpc' = "scanning") =>
             LET open == {k \in DOMAIN sd_files : ~Confirmed(k, nas_files)} IN
             /\ open # {}
             /\ target_files' = [k \in open |-> sd_files[k].mtime]
             /\ Len(mscans) < Len(nas_paths)
             /\ folders_to_scan' = <<nas_paths[Len(mscans) + 1]>>]_vars
    /\ [][mscans' # mscans =>
             /\ mpc = "scanning"
             /\ mscans' = Append(mscans, mscans'[Len(mscans')])
             /\ mscans'[Len(mscans')].root = nas_paths[Len(mscans')]
             /\ mscans'[Len(mscans')].targets = target_files]_vars

\* two roots were scanned, the second with fewer targets, and the third
\* root was not scanned because every key was confirmed
C11_Witness ==
    /\ mpc = "exit"
    /\ Len(nas_paths) = 3
    /\ Len(mscans) = 2
    /\ DOMAIN mscans[1].targets = {"a.jpg", "b.jpg"}
    /\ DOMAIN mscans[2].targets = {"b.jpg"}
    /\ \A k \in DOMAIN sd_files : Confirmed(k, nas_files)

\* the scans of the run that returned interrupted
InterruptedScans == {i \in 1..Len(mscans) : mscans[i].interrupted}

\* C12: an interrupted scan is the last scan of the run; its partial index
\* is merged and compared against; the warning is logged before any
\* classification is reported, and only in runs with an interrupted scan.
C12_InterruptedScan ==
    /\ [](\A i \in InterruptedScans : i = Len(mscans))
    /\ [][(mpc = "scanning" /\ pc = "done" /\ was_interrupted /\ mpc' # mpc) =>
             /\ mpc' = "nas_done"
             /\ \A k \in DOMAIN files : k \in DOMAIN nas_files' /\ nas_files'[k] = files[k]
             /\ \A k \in (DOMAIN nas_files) \ (DOMAIN files) :
                   k \in DOMAIN nas_files' /\ nas_files'[k] = nas_files[k]]_vars
    /\ [][(InterruptedScans # {} /\ mpc # "scanning") => nas_files' = nas_files]_vars
    /\ []((InterruptedScans # {} /\ mpc = "exit") =>
             /\ exit_status = 0
             /\ Pos("comparing", output_lines) > 0
             /\ Pos("backed_up", output_lines) > 0)
    /\ [](Pos("backed_up", output_lines) > 0 \/ Pos("missing", output_lines) > 0
          \/ Pos("all_backed_up", output_lines) > 0 \/ Pos("found_nas", output_lines) > 0 =>
             (InterruptedScans # {} <=> Pos("warn_incomplete", output_lines) > 0))
    /\ [](Pos("warn_incomplete", output_lines) > 0 =>
             /\ InterruptedScans # {}
             /\ \A t \in {"backed_up", "missing", "all_backed_up"} :
                   Pos(t, output_lines) > 0 =>
                      Pos("warn_incomplete", output_lines) < Pos(t, output_lines))

\* a run whose first scan was interrupted: the second root was not scanned,
\* the partial index was compared against and a file was reported missing
C12_Witness ==
    /\ mpc = "exit"
    /\ exit_status = 0
    /\ Len(nas_paths) > 1
    /\ Len(mscans) = 1
    /\ mscans[1].interrupted
    /\ mscans[1].found # <<>>
    /\ backed_up_nas # <<>>
    /\ missing # <<>>
    /\ Pos("warn_incomplete", output_lines) > 0

\* C14: a card path that does not exist ends the run with a non-zero status
\* and an error message before any backup location is scanned; a local
\* folder that does not exist gets a warning, adds nothing to the local
\* index, and the run goes on to the comparison.
C14_MissingRoot ==
    /\ [](setup_failure = "sd_path" =>
             /\ mpc = "exit"
             /\ exit_status # 0
             /\ Pos("sd_error", printed) > 0
             /\ mscans = <<>>
             /\ Pos("scanning_root", printed) = 0
             /\ Pos("scanning_local", printed) = 0)
    /\ []((Pos("found_local", printed) > 0
           /\ \E i \in 1..Len(local_paths) : local_paths[i] \notin DOMAIN LocalDisk) =>
             Pos("warn_local_missing", printed) > 0)
    /\ [][(mpc = "local" /\ mpc' # mpc) =>
             /\ mpc' = "compare"
             /\ exit_status' = -1
             /\ (\A i \in 1..Len(local_paths) : local_paths[i] \notin DOMAIN LocalDisk)
                   => local_files' = <<>>]_vars

\* C15: a run ends with a non-zero status exactly when a setup failure
\* occurred (no credentials, no remote root, no volume, no card path, no
\* connection), and then no report file is written; a run that has started
\* to scan the remote roots ends with status zero.
C15_ExitStatus ==
    /\ [](mpc = "exit" <=> exit_status # -1)
    /\ [](mpc = "exit" =>
             /\ exit_status \in {0, 1}
             /\ (exit_status # 0 <=> setup_failure # "none")
             /\ (exit_status # 0 => ~report_written)
             /\ (Pos("scanning_root", printed) > 0 => exit_status = 0))
    /\ [](setup_failure # "none" =>
             /\ mpc = "exit"
             /\ \/ setup_failure = "credentials" /\ Pos("cred_error", printed) > 0
                \/ setup_failure = "no_nas_folders" /\ nas_paths = <<>>
                \/ setup_failure = "no_volume" /\ Pos("no_volumes", printed) > 0
                \/ setup_failure = "sd_path" /\ Pos("sd_error", printed) > 0
                \/ setup_failure = "connection" /\ Pos("connect_error", printed) > 0)
    /\ [](mpc = "exit" /\ (\E t \in {"cred_error", "nas_error", "no_volumes", "sd_error",
                                     "connect_error"} : Pos(t, printed) > 0)
             => exit_status # 0)

\* a run with a failed folder listing, an interrupted scan and a missing
\* file that ends with status zero and a report
C15_Witness ==
    /\ mpc = "exit"
    /\ exit_status = 0
    /\ report_written
    /\ missing # <<>>
    /\ \E i \in 1..Len(mscans) : mscans[i].failed
    /\ \E i \in 1..Len(mscans) : mscans[i].interrupted

\* C20: a key of the card that is confirmed in the merged index stays
\* confirmed whenever the index changes.
C20_ConfirmedStays ==
    [][\A k \in DOMAIN sd_files : Confirmed(k, nas_files) => Confirmed(k, nas_files')]_vars

----------------------------------------------------------------------------
(* Properties of the remaining set and of the outcome of scan_nas_folder   *)

\* C21: in a scan with targets the remaining set holds target keys only,
\* and a target key is outside it exactly when the index holds a record of
\* the key within tolerance of the target's mtime.
C21_RemainingInvariant ==
    Truthy(target_files) =>
       /\ remaining \subseteq DOMAIN target_files
       /\ \A k \in DOMAIN target_files :
             k \notin remaining <=> (k \in DOMAIN files /\ Matched(k, files[k].mtime))

\* mid-scan: one target key is recorded outside tolerance and still
\* remaining, another is recorded within tolerance and no longer remaining
C21_Witness ==
    /\ pc # "done"
    /\ DOMAIN target_files = {"a.jpg", "b.jpg"}
    /\ remaining = {"a.jpg"}
    /\ "a.jpg" \in DOMAIN files
    /\ files["a.jpg"].mtime = 111
    /\ "b.jpg" \in DOMAIN files
    /\ files["b.jpg"].mtime = 110

\* the folders whose listing was fetched
ListedFolders == {f \in Folders : Listed(f)}

\* C22: when the scan has returned without interrupt and without a failed
\* listing call, every target key that has a file within tolerance in a
\* listed folder has a record within tolerance in the returned index.
C22_MatchFound ==
    (/\ pc = "done"
     /\ result = "returned"
     /\ ~was_interrupted
     /\ Failures = 0
     /\ Truthy(target_files)) =>
       \A k \in DOMAIN target_files :
          (\E f \in ListedFolders : \E i \in 1..Len(tree[f]) :
              /\ ~tree[f][i].isdir
              /\ lower(tree[f][i].name) = k
              /\ Matched(k, tree[f][i].mtime))
          => (k \in DOMAIN files /\ Matched(k, files[k].mtime))

\* a returned scan that saw A.JPG (outside tolerance) in one folder before
\* a.jpg (within tolerance) in another, and has not found every target
C22_Witness ==
    /\ pc = "done"
    /\ result = "returned"
    /\ ~was_interrupted
    /\ ~early_exit
    /\ Failures = 0
    /\ DOMAIN target_files = {"a.jpg", "b.jpg"}
    /\ remaining = {"b.jpg"}
    /\ files["a.jpg"].mtime = 100
    /\ \E i, j \in 1..Len(visited) :
          /\ i < j
          /\ \E h \in 1..Len(tree[visited[i]]) : tree[visited[i]][h].name = "A.JPG"
          /\ \E h \in 1..Len(tree[visited[j]]) : tree[visited[j]][h].name = "a.jpg"

----------------------------------------------------------------------------
(* Termination of scan_nas_folder                                          *)

\* number of fetches of folder f
FetchCount(f) == Cardinality({i \in 1..Len(fetches) : fetches[i].folder = f})

\* C23: no folder is on the work-stack twice or again after it was popped;
\* the fetches of a folder form one run of at most n div P + 1 calls (n its
\* number of entries, P the page size); the scan eventually returns, and it
\* returns with an empty stack, on early exit or on interrupt.
C23_Terminates ==
    /\ [](NoDup(visited \o folders_to_scan))
    /\ [](\A i, j \in 1..Len(fetches) :
             (i < j /\ fetches[i].folder = fetches[j].folder) =>
                \A h \in i..j : fetches[h].folder = fetches[i].folder)
    /\ [](\A f \in Folders : FetchCount(f) <= (Len(tree[f]) \div limit) + 1)
    /\ [](pc = "done" =>
             /\ result = "returned"
             /\ \/ was_interrupted /\ ~early_exit
                \/ early_exit /\ ~was_interrupted
                \/ folders_to_scan = <<>> /\ ~was_interrupted /\ ~early_exit)
    /\ <>(pc = "done")

\* a scan that returned with an empty stack after it listed all six folders,
\* the root in three fetches
C23_Witness ==
    /\ pc = "done"
    /\ result = "returned"
    /\ ~was_interrupted
    /\ ~early_exit
    /\ folders_to_scan = <<>>
    /\ Len(visited) = Cardinality(Folders)
    /\ FetchCount(ROOT) = 3

====
